---- MODULE Spec2Model ----
(***************************************************************************)
(* Reconciliation engine of the TrueNAS storage monitor: the orphan        *)
(* classifiers of K8sClient and TrueNASClient, and the Monitor and CLI     *)
(* entry points that call them.                                            *)
(*                                                                         *)
(* Conventions.  A Python Optional value is a sequence of length 0 (None)  *)
(* or 1.  Times are integers counted in minutes.  A filesystem path or a   *)
(* ZFS dataset name is the sequence of its "/"-separated segments.  The    *)
(* outcome of a call is a record: status "ok" with the returned value, or  *)
(* status "raised" with the name of the exception that left the call.      *)
(* Sizes are integers counted in MiB.  A float is the exact fraction it    *)
(* approximates, as a record of numerator and denominator in lowest terms. *)
(***************************************************************************)
EXTENDS Integers, Sequences, FiniteSets, TLC

VARIABLES
    config,      \* K8sConfig of the client under test
    monitor,     \* which clients Monitor.__init__ managed to build
    now,         \* datetime.now() of the call, in minutes
    failing,     \* collaborator listings that raise in this pass
    pvItems,     \* items of core_v1.list_persistent_volume()
    pvcItems,    \* items of the PersistentVolumeClaim listing
    tzAware,     \* creation timestamps of the control plane carry a tzinfo
    vsItems,     \* items of the VolumeSnapshot custom-object listing
    extents,     \* JSON of GET /iscsi/extent
    shares,      \* JSON of GET /sharing/nfs
    zfsSnaps,    \* SnapshotInfo objects of GET /zfs/snapshot
    pools,       \* JSON of GET /pool
    gauges,      \* samples of the Prometheus gauges of the Monitor
    pods,        \* items of the pod listing of all namespaces
    frame,       \* the operation in progress: where it is and its local variables
    ret          \* the last operation called, its arguments and its outcome

vars == <<config, monitor, now, failing, pvItems, pvcItems, tzAware, vsItems,
          extents, shares, zfsSnaps, pools, gauges, pods, frame, ret>>

----------------------------------------------------------------------------
(* Python values *)

None == <<>>

Some(x) == <<x>>

Opt(S) == {None} \cup {Some(x) : x \in S}

Ok(v) == [status |-> "ok", value |-> v, exc |-> "none"]

Raised(e) == [status |-> "raised", value |-> <<>>, exc |-> e]

\* [f(s[1]), ..., f(s[n])]
MapSeq(f(_), s) == [i \in 1..Len(s) |-> f(s[i])]

\* the sequences over S of length at most n
SeqsUpTo(S, n) == UNION {[1..k -> S] : k \in 0..n}

\* no two elements of the list carry the same name
UniqueNames(s) == \A i, j \in 1..Len(s) : s[i].name = s[j].name => i = j

\* no operation is in progress
NoFrame == [at |-> "idle", locals |-> <<>>]

NoCall == [op |-> "none", args |-> <<>>, out |-> Ok(<<>>)]

----------------------------------------------------------------------------
(* Bounds of the model *)

MaxPVs == 2

MaxPVCs == 2

MaxExtents == 2

MaxShares == 2

MaxActive == 2

MaxVolumeSnapshots == 2

MaxBackendArg == 1

MaxBackendSnapshots == 2

MaxControlArg == 1

MaxRuns == 2

MaxPools == 2
MaxPods == 2
MaxPasses == 2
MaxAlerts == 3

----------------------------------------------------------------------------
(* K8sConfig and the persistent volumes of the control plane *)

DefaultCsiDriver == "org.democratic-csi.nfs"

K8sConfig == [csi_driver |-> DefaultCsiDriver, storage_class |-> None, namespace |-> None]

MonitorClients == [k8s_client |-> TRUE, truenas_client |-> TRUE]

Now0 == 100000

PVName(i) ==
    IF i = 1 THEN "pv-orphaned" ELSE IF i = 2 THEN "pv-bound" ELSE IF i = 3 THEN "pv-c" ELSE "pv-d"

PVPhases == {"Available", "Bound", "Released", "Failed", "Pending"}

\* the V1PersistentVolume objects the API can return in position i of the list:
\* volumes of the configured driver in every phase, claim reference, capacity
\* and creation time, and volumes of another provisioner or without CSI source
PVObjects(i, t) ==
    [name : {PVName(i)},
     csi : {Some([driver |-> DefaultCsiDriver, volume_handle |-> "handle"])},
     claim_ref : Opt([name : {"test-pvc"}, namespace : {"default"}]),
     capacity : {"10Gi", ""},
     phase : PVPhases,
     creation_timestamp : {None, Some(t - 48 * 60)}]
    \cup
    [name : {PVName(i)},
     csi : {None, Some([driver |-> "other.csi.driver", volume_handle |-> "handle"])},
     claim_ref : {None},
     capacity : {"10Gi"},
     phase : PVPhases,
     creation_timestamp : {Some(t - 48 * 60)}]

\* K8sClient.get_persistent_volumes: the volumes of the configured driver
IsDriverVolume(pv, cfg) == pv.csi # None /\ pv.csi[1].driver = cfg.csi_driver

PersistentVolumeInfo(pv) ==
    [name |-> pv.name,
     volume_handle |-> pv.csi[1].volume_handle,
     driver |-> pv.csi[1].driver,
     capacity |-> pv.capacity,
     phase |-> pv.phase,
     claim_ref |-> pv.claim_ref,
     creation_time |-> pv.creation_timestamp]

GetPersistentVolumes(items, cfg, fail) ==
    IF "list_persistent_volume" \in fail
    THEN Raised("ApiException")
    ELSE Ok(MapSeq(PersistentVolumeInfo,
                   SelectSeq(items, LAMBDA pv : IsDriverVolume(pv, cfg))))

\* variant of the condition that also requires an Available volume to have no
\* claim reference
IsOrphanedPv_UnclaimedOnly(pv) ==
    pv.phase \in {"Available", "Released"} /\ pv.claim_ref = None

\* variant of the condition that lists every Released volume
IsOrphanedPv_AnyReleased(pv) == pv.phase \in {"Available", "Released"}

\* the condition of k8s_client.py line 453
IsOrphanedPv(pv) ==
    pv.phase = "Available" \/ (pv.phase = "Released" /\ pv.claim_ref = None)

PvOrphanReason(pv) == IF pv.phase = "Available" THEN "No PVC bound" ELSE "PVC deleted"

PvOrphan(pv, t) ==
    [resource_type |-> "PersistentVolume",
     name |-> pv.name,
     namespace |-> None,
     volume_handle |-> Some(pv.volume_handle),
     creation_time |-> IF pv.creation_time = None THEN t ELSE pv.creation_time[1],
     size |-> Some(pv.capacity),
     location |-> "Kubernetes",
     reason |-> PvOrphanReason(pv),
     details |-> [phase |-> pv.phase, driver |-> pv.driver]]

\* K8sClient.find_orphaned_pvs(self): the method takes no argument, so a call
\* that passes a keyword raises TypeError before the body runs.
FindOrphanedPvs(kwargs, items, cfg, fail, t) ==
    IF kwargs # {}
    THEN Raised("TypeError")
    ELSE LET pvs == GetPersistentVolumes(items, cfg, fail)
         IN  IF pvs.status = "raised"
             THEN pvs
             ELSE Ok(MapSeq(LAMBDA pv : PvOrphan(pv, t),
                            SelectSeq(pvs.value, IsOrphanedPv)))

\* the orphans command of the CLI up to the PV lookup (cli.py lines 88-173):
\* any exception is printed and the command exits with status 1.
CliOrphansPvs(threshold, items, cfg, fail, t) ==
    LET found == FindOrphanedPvs({"orphan_threshold_minutes"}, items, cfg, fail, t)
    IN  IF found.status = "raised"
        THEN [exit |-> 1, listed |-> <<>>, error |-> Some(found.exc)]
        ELSE [exit |-> 0, listed |-> found.value, error |-> None]

\* Monitor.check_orphaned_pvs: reads pv.status of every OrphanedResource,
\* an attribute the dataclass does not have.
MonitorCheckOrphanedPvs(mon, items, cfg, fail, t) ==
    IF ~mon.k8s_client
    THEN [orphaned_pvs |-> <<>>, error |-> Some("Kubernetes client not available")]
    ELSE LET found == FindOrphanedPvs({}, items, cfg, fail, t)
         IN  IF found.status = "raised"
             THEN [orphaned_pvs |-> <<>>, error |-> Some(found.exc)]
             ELSE IF Len(found.value) > 0
                  THEN [orphaned_pvs |-> <<>>, error |-> Some("AttributeError")]
                  ELSE [orphaned_pvs |-> <<>>, error |-> None]

----------------------------------------------------------------------------
(* Operations on the persistent volumes *)

CallFindOrphanedPvs ==
    /\ ret' = [op |-> "find_orphaned_pvs", args |-> <<>>,
               out |-> FindOrphanedPvs({}, pvItems, config, failing, now)]
    /\ UNCHANGED <<pods, frame, pools, gauges, config, monitor, now, failing, pvItems, pvcItems, tzAware,
                   vsItems, extents, shares, zfsSnaps>>

CallCliOrphans ==
    \E threshold \in {24} :
        /\ ret' = [op |-> "cli.orphans", args |-> <<threshold>>,
                   out |-> Ok(CliOrphansPvs(threshold, pvItems, config, failing, now))]
        /\ UNCHANGED <<pods, frame, pools, gauges, config, monitor, now, failing, pvItems, pvcItems, tzAware,
                       vsItems, extents, shares, zfsSnaps>>

CallMonitorCheckOrphanedPvs ==
    /\ ret' = [op |-> "check_orphaned_pvs", args |-> <<>>,
               out |-> Ok(MonitorCheckOrphanedPvs(monitor, pvItems, config, failing, now))]
    /\ UNCHANGED <<pods, frame, pools, gauges, config, monitor, now, failing, pvItems, pvcItems, tzAware,
                   vsItems, extents, shares, zfsSnaps>>

InitIdle ==
    /\ config = K8sConfig
    /\ monitor = MonitorClients
    /\ now = Now0
    /\ failing = {}
    /\ pvItems = <<>>
    /\ pvcItems = <<>>
    /\ tzAware = TRUE
    /\ vsItems = <<>>
    /\ extents = <<>>
    /\ shares = <<>>
    /\ zfsSnaps = <<>>
    /\ pools = <<>>
    /\ gauges = {}
    /\ pods = <<>>
    /\ frame = NoFrame
    /\ ret = NoCall

\* the API server stores one more PersistentVolume before the operation runs
ApiCreatePV ==
    /\ ret = NoCall
    /\ Len(pvItems) < MaxPVs
    /\ \E pv \in PVObjects(Len(pvItems) + 1, now) : pvItems' = Append(pvItems, pv)
    /\ UNCHANGED <<pods, frame, pools, gauges, config, monitor, now, failing, pvcItems, tzAware,
                   vsItems, extents, shares, zfsSnaps, ret>>

\* a listing of the control plane starts to fail (ApiException)
ApiOutagePV ==
    /\ ret = NoCall
    /\ failing = {}
    /\ failing' = {"list_persistent_volume"}
    /\ UNCHANGED <<pods, frame, pools, gauges, config, monitor, now, pvItems, pvcItems, tzAware,
                   vsItems, extents, shares, zfsSnaps, ret>>

NextPV ==
    \/ ApiCreatePV
    \/ ApiOutagePV
    \/ CallFindOrphanedPvs
    \/ CallCliOrphans
    \/ CallMonitorCheckOrphanedPvs

SpecPV == InitIdle /\ [][NextPV]_vars

----------------------------------------------------------------------------
(* Claims about the persistent volumes *)

OfConfiguredDriver(item) == item.csi # None /\ item.csi[1].driver = config.csi_driver

ReturnedPvOrphans == ret.op = "find_orphaned_pvs" /\ ret.out.status = "ok"

EntriesNamed(entries, name) == {j \in 1..Len(entries) : entries[j].name = name}

Names(entries) == {entries[j].name : j \in 1..Len(entries)}

\* C1: every volume of the configured driver in phase Available has exactly
\* one entry in the list find_orphaned_pvs returns, with reason "No PVC bound",
\* whatever its claim reference, capacity and creation time.
C1_AvailableListedOnce ==
    ReturnedPvOrphans =>
        \A i \in 1..Len(pvItems) :
            (OfConfiguredDriver(pvItems[i]) /\ pvItems[i].phase = "Available") =>
                /\ Cardinality(EntriesNamed(ret.out.value, pvItems[i].name)) = 1
                /\ \A j \in EntriesNamed(ret.out.value, pvItems[i].name) :
                       ret.out.value[j].reason = "No PVC bound"

\* an Available volume that still carries a claim reference, and one without
\* creation time, were classified
C1_Witness ==
    /\ ReturnedPvOrphans
    /\ Len(pvItems) = 2
    /\ \A i \in 1..2 : OfConfiguredDriver(pvItems[i]) /\ pvItems[i].phase = "Available"
    /\ pvItems[1].claim_ref # None /\ pvItems[1].capacity = ""
    /\ pvItems[2].creation_timestamp = None
    /\ Len(ret.out.value) = 2

\* C2: a Released volume of the configured driver without claim reference is
\* listed with reason "PVC deleted"; a Released volume with a claim reference
\* is never listed.
C2_ReleasedByClaimRef ==
    ReturnedPvOrphans =>
        \A i \in 1..Len(pvItems) :
            (OfConfiguredDriver(pvItems[i]) /\ pvItems[i].phase = "Released") =>
                IF pvItems[i].claim_ref = None
                THEN /\ EntriesNamed(ret.out.value, pvItems[i].name) # {}
                     /\ \A j \in EntriesNamed(ret.out.value, pvItems[i].name) :
                            ret.out.value[j].reason = "PVC deleted"
                ELSE EntriesNamed(ret.out.value, pvItems[i].name) = {}

\* one Released volume with a claim reference and one without were classified
C2_Witness ==
    /\ ReturnedPvOrphans
    /\ Len(pvItems) = 2
    /\ \A i \in 1..2 : OfConfiguredDriver(pvItems[i]) /\ pvItems[i].phase = "Released"
    /\ pvItems[1].claim_ref # None
    /\ pvItems[2].claim_ref = None
    /\ Names(ret.out.value) = {pvItems[2].name}

\* the names the phase rule selects among the listed volumes
PhaseOrphanNames ==
    {pvItems[i].name : i \in {k \in 1..Len(pvItems) :
        /\ OfConfiguredDriver(pvItems[k])
        /\ \/ pvItems[k].phase = "Available"
           \/ pvItems[k].phase = "Released" /\ pvItems[k].claim_ref = None}}

\* C3: classification of volumes is by phase alone: a Bound, Pending or
\* Failed volume is never listed, changing only a creation time never changes
\* which volumes are listed, and a caller that supplies an age threshold gets
\* the same volumes listed; pv-orphaned (Available, 48h old) with pv-bound
\* (Bound) yields exactly pv-orphaned.
C3_PhaseOnlyForEveryCaller ==
    /\ ReturnedPvOrphans =>
          /\ \A i \in 1..Len(pvItems) :
                 pvItems[i].phase \in {"Bound", "Pending", "Failed"} =>
                     EntriesNamed(ret.out.value, pvItems[i].name) = {}
          /\ \A i \in 1..Len(pvItems) : \A c \in {None, Some(now), Some(now - 48 * 60)} :
                 Names(FindOrphanedPvs({}, [pvItems EXCEPT ![i].creation_timestamp = c],
                                       config, failing, now).value) = Names(ret.out.value)
    /\ (ret.op = "cli.orphans" /\ failing = {}) =>
          Names(ret.out.value.listed) = PhaseOrphanNames
    /\ (ret.op = "check_orphaned_pvs" /\ failing = {}) =>
          Names(ret.out.value.orphaned_pvs) = PhaseOrphanNames

\* the part of C3 the classifier itself decides: with no argument supplied,
\* find_orphaned_pvs lists exactly the volumes the phase rule selects
C3_DirectCallPhaseOnly ==
    ReturnedPvOrphans => Names(ret.out.value) = PhaseOrphanNames

----------------------------------------------------------------------------
(* The persistent volume claims of the control plane *)

DefaultPendingThresholdMinutes == 60

PVCName(i) ==
    IF i = 1 THEN "pvc-a" ELSE IF i = 2 THEN "pvc-b" ELSE IF i = 3 THEN "pvc-c" ELSE "pvc-d"

PVCPhases == {"Pending", "Bound", "Lost"}

\* ages, in minutes, of the claims the API returns: 10 minutes, the two
\* thresholds used below and one minute more than each
ClaimAges == {10, 60, 61, 120, 121}

\* the V1PersistentVolumeClaim objects the API can return in position i
PVCObjects(i, t) ==
    [name : {PVCName(i)},
     namespace : {"default"},
     storage_class : {Some("democratic-csi-nfs")},
     volume_name : {None},
     capacity : {"10Gi"},
     phase : PVCPhases,
     creation_timestamp : {None} \cup {Some(t - a) : a \in ClaimAges}]

PersistentVolumeClaimInfo(pvc) ==
    [name |-> pvc.name,
     namespace |-> pvc.namespace,
     storage_class |-> pvc.storage_class,
     volume_name |-> pvc.volume_name,
     capacity |-> pvc.capacity,
     phase |-> pvc.phase,
     creation_time |-> pvc.creation_timestamp]

\* the filter of k8s_client.py line 206
IsMonitoredClaim(pvc, cfg) ==
    cfg.storage_class = None \/ pvc.storage_class = cfg.storage_class

\* K8sClient.get_persistent_volume_claims
GetPersistentVolumeClaims(items, cfg, fail) ==
    IF "list_persistent_volume_claim" \in fail
    THEN Raised("ApiException")
    ELSE Ok(MapSeq(PersistentVolumeClaimInfo,
                   SelectSeq(items, LAMBDA pvc : IsMonitoredClaim(pvc, cfg))))

\* line 485: the threshold takes the tzinfo of the first claim's creation time,
\* and is naive when the list is empty or the first claim has no creation time
ThresholdIsAware(pvcs, aware) ==
    Len(pvcs) > 0 /\ pvcs[1].creation_time # None /\ aware

\* the condition of line 488, for operands that can be compared
IsPendingTooLong(pvc, t, threshold) ==
    /\ pvc.phase = "Pending"
    /\ pvc.creation_time # None
    /\ pvc.creation_time[1] < t - threshold

\* line 488 evaluates creation_time < threshold for every Pending claim with a
\* creation time; comparing an aware with a naive datetime raises TypeError
ComparesMixedDatetimes(pvcs, aware) ==
    \E i \in 1..Len(pvcs) :
        /\ pvcs[i].phase = "Pending"
        /\ pvcs[i].creation_time # None
        /\ aware # ThresholdIsAware(pvcs, aware)

PvcOrphan(pvc, threshold) ==
    [resource_type |-> "PersistentVolumeClaim",
     name |-> pvc.name,
     namespace |-> Some(pvc.namespace),
     volume_handle |-> None,
     creation_time |-> pvc.creation_time[1],
     size |-> Some(pvc.capacity),
     location |-> "Kubernetes",
     reason |-> <<"Pending for over", threshold, "minutes">>,
     details |-> [phase |-> pvc.phase, storage_class |-> pvc.storage_class]]

\* K8sClient.find_orphaned_pvcs
FindOrphanedPvcs(threshold, items, cfg, fail, aware, t) ==
    LET pvcs == GetPersistentVolumeClaims(items, cfg, fail)
    IN  IF pvcs.status = "raised"
        THEN pvcs
        ELSE IF ComparesMixedDatetimes(pvcs.value, aware)
             THEN Raised("TypeError")
             ELSE Ok(MapSeq(LAMBDA pvc : PvcOrphan(pvc, threshold),
                            SelectSeq(pvcs.value,
                                      LAMBDA pvc : IsPendingTooLong(pvc, t, threshold))))

----------------------------------------------------------------------------
(* Operations on the claims *)

\* the API server stores one more PersistentVolumeClaim
ApiCreatePVC ==
    /\ ret = NoCall
    /\ Len(pvcItems) < MaxPVCs
    /\ \E pvc \in PVCObjects(Len(pvcItems) + 1, now) : pvcItems' = Append(pvcItems, pvc)
    /\ UNCHANGED <<pods, frame, pools, gauges, config, monitor, now, failing, pvItems, tzAware,
                   vsItems, extents, shares, zfsSnaps, ret>>

\* the claim listing starts to fail (ApiException)
ApiOutagePVC ==
    /\ ret = NoCall
    /\ failing = {}
    /\ failing' = {"list_persistent_volume_claim"}
    /\ UNCHANGED <<pods, frame, pools, gauges, config, monitor, now, pvItems, pvcItems, tzAware,
                   vsItems, extents, shares, zfsSnaps, ret>>

\* the listing comes from a source whose timestamps carry no tzinfo (the
\* datetime(2024, 1, 1) of the unit tests) instead of the API's UTC times
NaiveTimestamps ==
    /\ ret = NoCall
    /\ tzAware
    /\ tzAware' = FALSE
    /\ UNCHANGED <<pods, frame, pools, gauges, config, monitor, now, failing, pvItems, pvcItems,
                   vsItems, extents, shares, zfsSnaps, ret>>

CallFindOrphanedPvcs ==
    \E threshold \in {DefaultPendingThresholdMinutes, 2 * DefaultPendingThresholdMinutes} :
        /\ ret' = [op |-> "find_orphaned_pvcs", args |-> <<threshold>>,
                   out |-> FindOrphanedPvcs(threshold, pvcItems, config, failing,
                                            tzAware, now)]
        /\ UNCHANGED <<pods, frame, pools, gauges, config, monitor, now, failing, pvItems, pvcItems, tzAware,
                       vsItems, extents, shares, zfsSnaps>>

NextPVC ==
    \/ ApiCreatePVC
    \/ ApiOutagePVC
    \/ NaiveTimestamps
    \/ CallFindOrphanedPvcs

SpecPVC == InitIdle /\ [][NextPVC]_vars

----------------------------------------------------------------------------
(* Claims about the persistent volume claims *)

\* the claim in position i is Pending and older than the threshold
PendingOver(i, threshold) ==
    /\ pvcItems[i].phase = "Pending"
    /\ pvcItems[i].creation_timestamp # None
    /\ now - pvcItems[i].creation_timestamp[1] > threshold

\* the list lists claim i exactly when it is Pending and older than the
\* threshold, once and with a reason naming the threshold
ListsPendingOver(entries, threshold) ==
    \A i \in 1..Len(pvcItems) :
        IF PendingOver(i, threshold)
        THEN /\ Cardinality(EntriesNamed(entries, pvcItems[i].name)) = 1
             /\ \A j \in EntriesNamed(entries, pvcItems[i].name) :
                    entries[j].reason = <<"Pending for over", threshold, "minutes">>
        ELSE EntriesNamed(entries, pvcItems[i].name) = {}

\* C4: with the claim listing available, find_orphaned_pvcs(T) returns a list
\* that holds a claim if and only if it is Pending and its age is strictly
\* greater than T: once, with a reason naming T; a Pending claim of age <= T
\* and a Bound or Lost claim of any age are absent.
C4_PendingOverThresholdListed ==
    (ret.op = "find_orphaned_pvcs" /\ failing = {}) =>
        /\ ret.out.status = "ok"
        /\ ListsPendingOver(ret.out.value, ret.args[1])

\* what find_orphaned_pvcs guarantees: whenever it returns a list, the list
\* is the one C4 describes
C4_ListWhenReturned ==
    (ret.op = "find_orphaned_pvcs" /\ ret.out.status = "ok") =>
        ListsPendingOver(ret.out.value, ret.args[1])

\* claims at and just over the threshold were classified
C4_Boundary ==
    /\ ret.op = "find_orphaned_pvcs" /\ ret.out.status = "ok"
    /\ Len(pvcItems) = 2
    /\ \A i \in 1..2 : pvcItems[i].phase = "Pending" /\ pvcItems[i].creation_timestamp # None
    /\ now - pvcItems[1].creation_timestamp[1] = ret.args[1]
    /\ now - pvcItems[2].creation_timestamp[1] = ret.args[1] + 1
    /\ Names(ret.out.value) = {pvcItems[2].name}

----------------------------------------------------------------------------
(* Backend volumes: iSCSI extents and NFS shares *)

\* volume names known to either side
VolumeNames == {"pvc-a", "pvc-b"}

\* GET /iscsi/extent: VolumeInfo objects
ExtentObjects ==
    [name : VolumeNames, path : {<<"mnt", "tank", "k8s", "volumes">>}, filesize : {0}]

\* GET /sharing/nfs: the "path" of a share, as the segments after each "/";
\* a last segment "" is a trailing "/"
SharePaths ==
    {<<"mnt", "tank", "k8s", "nfs", n>> : n \in VolumeNames}
    \cup {<<"mnt", "tank", "other", "pvc-a">>,
          <<"mnt", "k8s", "nfs", "k8s", "nfs", "ns", "pvc-a">>,
          <<"mnt", "tank", "k8s", "nfs", "">>}

ShareObjects == [path : SharePaths]

\* the text "/k8s/nfs/" starts at the "/" before segment i of the path
K8sNfsAt(path, i) ==
    /\ i >= 1 /\ i + 2 <= Len(path)
    /\ path[i] = "k8s" /\ path[i + 1] = "nfs"

\* "/k8s/nfs/" in path
ContainsK8sNfs(path) == \E i \in 1..Len(path) : K8sNfsAt(path, i)

\* path.split("/k8s/nfs/")[-1]: str.split scans from the left and resumes
\* after the separator it consumed, so a match at segment i hides one at
\* i + 2; the result is the text after the last match found, as segments
RECURSIVE SplitLastFrom(_, _, _)
SplitLastFrom(path, from, start) ==
    IF \E i \in from..Len(path) : K8sNfsAt(path, i)
    THEN LET i == CHOOSE k \in from..Len(path) :
                      /\ K8sNfsAt(path, k)
                      /\ \A m \in from..(k - 1) : ~K8sNfsAt(path, m)
         IN  SplitLastFrom(path, i + 3, i + 2)
    ELSE SubSeq(path, start, Len(path))

SplitLast(path) == SplitLastFrom(path, 1, 1)

\* the text of a name without "/" as a one-segment sequence
Text(name) == <<name>>

\* a non-empty text: not the single empty segment
NonEmptyText(segs) == segs # <<"">> /\ segs # <<>>

\* volume_name not in k8s_names_set: the names of the set contain no "/"
NotInNames(segs, names) == ~(Len(segs) = 1 /\ segs[1] \in names)

\* set(k8s_volume_names)
NameSet(names) == {names[i] : i \in 1..Len(names)}

IscsiOrphan(volume) ==
    [name |-> Text(volume.name), path |-> volume.path, type |-> "iscsi",
     size |-> Some(volume.filesize)]

NfsOrphan(share) ==
    [name |-> SplitLast(share.path), path |-> share.path, type |-> "nfs", size |-> None]

\* lines 497-509: the iSCSI pass; a failure of the listing is logged
IscsiOrphans(extentList, names, fail) ==
    IF "iscsi/extent" \in fail
    THEN <<>>
    ELSE MapSeq(IscsiOrphan,
                SelectSeq(extentList,
                          LAMBDA v : NotInNames(Text(v.name), NameSet(names))))

\* variant of the share condition without the "/k8s/nfs/" test
IsOrphanedShare_AnyPath(share, names) ==
    /\ NonEmptyText(SplitLast(share.path))
    /\ NotInNames(SplitLast(share.path), NameSet(names))

\* the condition of lines 517-519
IsOrphanedShare(share, names) ==
    /\ ContainsK8sNfs(share.path)
    /\ NonEmptyText(SplitLast(share.path))
    /\ NotInNames(SplitLast(share.path), NameSet(names))

\* lines 512-527: the NFS pass; a failure of the listing is logged
NfsOrphans(shareList, names, fail) ==
    IF "sharing/nfs" \in fail
    THEN <<>>
    ELSE MapSeq(NfsOrphan, SelectSeq(shareList, LAMBDA sh : IsOrphanedShare(sh, names)))

\* variant in which a name reported for a block volume is not reported again
\* for a share
FindOrphanedVolumes_Dedup(names, extentList, shareList, fail) ==
    LET block == IscsiOrphans(extentList, names, fail)
    IN  block \o SelectSeq(NfsOrphans(shareList, names, fail),
                           LAMBDA o : \A j \in 1..Len(block) : block[j].name # o.name)

\* TrueNASClient.find_orphaned_volumes
FindOrphanedVolumes(names, extentList, shareList, fail) ==
    IscsiOrphans(extentList, names, fail) \o NfsOrphans(shareList, names, fail)

----------------------------------------------------------------------------
(* Operations on the backend volumes *)

\* the backend gains one more iSCSI extent
BackendCreateExtent ==
    /\ ret = NoCall
    /\ Len(extents) < MaxExtents
    /\ \E v \in ExtentObjects : extents' = Append(extents, v)
    /\ UNCHANGED <<pods, frame, pools, gauges, config, monitor, now, failing, pvItems, pvcItems, tzAware,
                   vsItems, shares, zfsSnaps, ret>>

\* the backend gains one more NFS share
BackendCreateShare ==
    /\ ret = NoCall
    /\ Len(shares) < MaxShares
    /\ \E sh \in ShareObjects : shares' = Append(shares, sh)
    /\ UNCHANGED <<pods, frame, pools, gauges, config, monitor, now, failing, pvItems, pvcItems, tzAware,
                   vsItems, extents, zfsSnaps, ret>>

\* a listing of the backend starts to fail (RequestException)
BackendOutageVolumes ==
    /\ ret = NoCall
    /\ \E endpoint \in {"iscsi/extent", "sharing/nfs"} :
           /\ endpoint \notin failing
           /\ failing' = failing \cup {endpoint}
    /\ UNCHANGED <<pods, frame, pools, gauges, config, monitor, now, pvItems, pvcItems, tzAware,
                   vsItems, extents, shares, zfsSnaps, ret>>

CallFindOrphanedVolumes ==
    \E names \in SeqsUpTo(VolumeNames, MaxActive) :
        /\ ret' = [op |-> "find_orphaned_volumes", args |-> <<names>>,
                   out |-> Ok(FindOrphanedVolumes(names, extents, shares, failing))]
        /\ UNCHANGED <<pods, frame, pools, gauges, config, monitor, now, failing, pvItems, pvcItems, tzAware,
                       vsItems, extents, shares, zfsSnaps>>

NextVol ==
    \/ BackendCreateExtent
    \/ BackendCreateShare
    \/ BackendOutageVolumes
    \/ CallFindOrphanedVolumes

SpecVol == InitIdle /\ [][NextVol]_vars

----------------------------------------------------------------------------
(* Claims about the backend volumes *)

ReturnedVolumeOrphans == ret.op = "find_orphaned_volumes"

\* the entries of one kind, in order
OfKind(entries, kind) == SelectSeq(entries, LAMBDA o : o.type = kind)

\* the number of entries of a kind reported for a path under a name
CountEntries(entries, kind, path, name) ==
    Cardinality({j \in 1..Len(entries) :
        entries[j].type = kind /\ entries[j].path = path /\ entries[j].name = name})

\* the number of extents with this name and path, and of shares with this path
CountExtents(name, path) ==
    Cardinality({i \in 1..Len(extents) : extents[i].name = name /\ extents[i].path = path})

CountShares(path) == Cardinality({i \in 1..Len(shares) : shares[i].path = path})

\* os.path.basename of a share path
Basename(path) == IF path = <<>> THEN "" ELSE path[Len(path)]

\* C5 as stated: with both listings available, every block volume whose name
\* and every file share whose path basename is not an active identifier has
\* exactly one entry, and a volume whose derived name is active has none
\* (a share whose path has no basename has no derived name).
C5_OrphanPerUnmatchedBasename ==
    (ReturnedVolumeOrphans /\ failing = {}) =>
        LET active == NameSet(ret.args[1])
            out == ret.out.value
        IN  /\ \A i \in 1..Len(extents) :
                   CountEntries(out, "iscsi", extents[i].path, Text(extents[i].name))
                   = IF extents[i].name \notin active
                     THEN CountExtents(extents[i].name, extents[i].path) ELSE 0
            /\ \A i \in 1..Len(shares) :
                   Basename(shares[i].path) # "" =>
                       Cardinality({j \in 1..Len(out) :
                           out[j].type = "nfs" /\ out[j].path = shares[i].path})
                       = IF Basename(shares[i].path) \notin active
                         THEN CountShares(shares[i].path) ELSE 0

\* the share lies under "/k8s/nfs/" and the text after it is a name
ManagedShare(path) == ContainsK8sNfs(path) /\ NonEmptyText(SplitLast(path))

\* C5, amended: for any list of active identifiers, the list returned holds
\* exactly one entry for each block volume of the iSCSI listing whose name is
\* not an active identifier, and exactly one entry for each share of the NFS
\* listing whose path contains "/k8s/nfs/" and whose text after the last
\* "/k8s/nfs/" is non-empty and not an active identifier; it holds no entry
\* for any other volume, and none of a kind whose listing failed.
C5_OrphanPerUnmatchedManagedVolume ==
    ReturnedVolumeOrphans =>
        LET active == NameSet(ret.args[1])
            out == ret.out.value
            blockOk == "iscsi/extent" \notin failing
            fileOk == "sharing/nfs" \notin failing
        IN  /\ \A i \in 1..Len(extents) :
                   CountEntries(out, "iscsi", extents[i].path, Text(extents[i].name))
                   = IF blockOk /\ extents[i].name \notin active
                     THEN CountExtents(extents[i].name, extents[i].path) ELSE 0
            /\ \A i \in 1..Len(shares) :
                   Cardinality({j \in 1..Len(out) :
                       out[j].type = "nfs" /\ out[j].path = shares[i].path})
                   = IF /\ fileOk
                        /\ ManagedShare(shares[i].path)
                        /\ NotInNames(SplitLast(shares[i].path), active)
                     THEN CountShares(shares[i].path) ELSE 0
            /\ \A j \in 1..Len(out) :
                   \/ /\ out[j].type = "iscsi"
                      /\ \E i \in 1..Len(extents) :
                             out[j].name = Text(extents[i].name) /\ out[j].path = extents[i].path
                   \/ /\ out[j].type = "nfs"
                      /\ out[j].name = SplitLast(out[j].path)
                      /\ \E i \in 1..Len(shares) : out[j].path = shares[i].path

\* a list with a duplicated identifier was compared with two extents and with
\* a share under /k8s/nfs/ and one outside it
C5_Witness ==
    /\ ReturnedVolumeOrphans /\ failing = {}
    /\ ret.args[1] = <<"pvc-a", "pvc-a">>
    /\ Len(extents) = 2 /\ extents[1].name = "pvc-a" /\ extents[2].name = "pvc-b"
    /\ Len(shares) = 2
    /\ shares[1].path = <<"mnt", "tank", "other", "pvc-a">>
    /\ shares[2].path = <<"mnt", "tank", "k8s", "nfs", "pvc-b">>
    /\ Len(ret.out.value) = 2
    /\ ret.out.value[1].type = "iscsi" /\ ret.out.value[1].name = <<"pvc-b">>
    /\ ret.out.value[2].type = "nfs" /\ ret.out.value[2].name = <<"pvc-b">>

\* share listings and outcomes the detection of one pass could have met
\* instead of the ones it met
OtherShareLists == {<<>>} \cup {<<sh>> : sh \in ShareObjects}

OtherExtentLists == {<<>>} \cup {<<v>> : v \in ExtentObjects}

\* C6: the block entries returned are the same whatever the NFS listing
\* holds and whether or not it fails, the share entries are the same whatever
\* the iSCSI listing holds and whether or not it fails, and a block volume and
\* a share under /k8s/nfs/ with the same name, absent from the active
\* identifiers, are both reported, one entry per kind.
C6_KindsIndependent ==
    ReturnedVolumeOrphans =>
        LET names == ret.args[1]
            out == ret.out.value
        IN  /\ \A sh \in OtherShareLists : \A f \in SUBSET {"sharing/nfs"} :
                   OfKind(FindOrphanedVolumes(names, extents, sh,
                                              (failing \ {"sharing/nfs"}) \cup f), "iscsi")
                   = OfKind(out, "iscsi")
            /\ \A ex \in OtherExtentLists : \A f \in SUBSET {"iscsi/extent"} :
                   OfKind(FindOrphanedVolumes(names, ex, shares,
                                              (failing \ {"iscsi/extent"}) \cup f), "nfs")
                   = OfKind(out, "nfs")
            /\ \A i \in 1..Len(extents) : \A k \in 1..Len(shares) :
                   (/\ failing = {}
                    /\ extents[i].name \notin NameSet(names)
                    /\ ContainsK8sNfs(shares[k].path)
                    /\ SplitLast(shares[k].path) = Text(extents[i].name)) =>
                       /\ \E j \in 1..Len(out) :
                              out[j].type = "iscsi" /\ out[j].name = Text(extents[i].name)
                       /\ \E j \in 1..Len(out) :
                              out[j].type = "nfs" /\ out[j].path = shares[k].path

\* a block volume and a share named pvc-a, neither active, were both reported
C6_Collision ==
    /\ ReturnedVolumeOrphans /\ failing = {}
    /\ ret.args[1] = <<"pvc-b">>
    /\ extents = <<[name |-> "pvc-a", path |-> <<"mnt", "tank", "k8s", "volumes">>,
                    filesize |-> 0]>>
    /\ shares = <<[path |-> <<"mnt", "tank", "k8s", "nfs", "pvc-a">>]>>
    /\ Len(ret.out.value) = 2
    /\ ret.out.value[1].name = ret.out.value[2].name
    /\ ret.out.value[1].type # ret.out.value[2].type

----------------------------------------------------------------------------
(* The orchestrator's check of the backend volumes *)

\* K8sClient.get_volume_names: the bound volume name of every claim, or the
\* claim's own name when no volume is bound; [] when the listing fails
GetVolumeNames(items, cfg, fail) ==
    LET pvcs == GetPersistentVolumeClaims(items, cfg, fail)
    IN  IF pvcs.status = "raised"
        THEN <<>>
        ELSE MapSeq(LAMBDA pvc : IF pvc.volume_name # None
                                 THEN pvc.volume_name[1] ELSE pvc.name,
                    pvcs.value)

\* the dict built at line 557
VolumeEntry(vol) == [name |-> vol.name, path |-> vol.path]

\* Monitor.check_orphaned_volumes: the active names are the names of the
\* PersistentVolumes (lines 553-554)
CheckOrphanedVolumes(mon, pvList, pvcList, cfg, extentList, shareList, fail) ==
    IF ~mon.truenas_client
    THEN [orphaned_volumes |-> <<>>, error |-> Some("TrueNAS client not available")]
    ELSE LET pvs == IF mon.k8s_client
                    THEN GetPersistentVolumes(pvList, cfg, fail)
                    ELSE Ok(<<>>)
         IN  IF pvs.status = "raised"
             THEN [orphaned_volumes |-> <<>>, error |-> Some(pvs.exc)]
             ELSE LET active == MapSeq(LAMBDA pv : pv.name, pvs.value)
                  IN  [orphaned_volumes |->
                           MapSeq(VolumeEntry,
                                  FindOrphanedVolumes(active, extentList, shareList, fail)),
                       error |-> None]

\* a volume provisioned for the driver, named like the backend volume
ProvisionedVolume(name) ==
    [name |-> name,
     csi |-> Some([driver |-> DefaultCsiDriver, volume_handle |-> "handle"]),
     claim_ref |-> Some([name |-> "test-pvc", namespace |-> "default"]),
     capacity |-> "10Gi",
     phase |-> "Bound",
     creation_timestamp |-> Some(0)]

\* a claim bound to a volume, or still waiting for one
ClaimFor(i, volume) ==
    [name |-> PVCName(i),
     namespace |-> "default",
     storage_class |-> Some("democratic-csi-nfs"),
     volume_name |-> volume,
     capacity |-> "10Gi",
     phase |-> IF volume = None THEN "Pending" ELSE "Bound",
     creation_timestamp |-> Some(0)]

\* the provisioner creates a PersistentVolume
ApiProvisionVolume ==
    /\ ret = NoCall
    /\ Len(pvItems) < MaxPVs
    /\ \E n \in VolumeNames :
           /\ \A i \in 1..Len(pvItems) : pvItems[i].name # n
           /\ pvItems' = Append(pvItems, ProvisionedVolume(n))
    /\ UNCHANGED <<pods, frame, pools, gauges, config, monitor, now, failing, pvcItems, tzAware,
                   vsItems, extents, shares, zfsSnaps, ret>>

\* a user creates a claim
ApiCreateClaim ==
    /\ ret = NoCall
    /\ Len(pvcItems) < MaxPVCs
    /\ \E volume \in Opt(VolumeNames) :
           pvcItems' = Append(pvcItems, ClaimFor(Len(pvcItems) + 1, volume))
    /\ UNCHANGED <<pods, frame, pools, gauges, config, monitor, now, failing, pvItems, tzAware,
                   vsItems, extents, shares, zfsSnaps, ret>>

\* the backend exports a share for a provisioned volume
BackendExportShare ==
    /\ ret = NoCall
    /\ Len(shares) < MaxShares
    /\ \E n \in VolumeNames :
           shares' = Append(shares, [path |-> <<"mnt", "tank", "k8s", "nfs", n>>])
    /\ UNCHANGED <<pods, frame, pools, gauges, config, monitor, now, failing, pvItems, pvcItems, tzAware,
                   vsItems, extents, zfsSnaps, ret>>

\* Monitor.__init__ could not build the Kubernetes client (lines 50-51)
K8sClientInitFails ==
    /\ ret = NoCall
    /\ monitor.k8s_client
    /\ monitor' = [monitor EXCEPT !.k8s_client = FALSE]
    /\ UNCHANGED <<pods, frame, pools, gauges, config, now, failing, pvItems, pvcItems, tzAware,
                   vsItems, extents, shares, zfsSnaps, ret>>

CallGetVolumeNames ==
    /\ ret' = [op |-> "get_volume_names", args |-> <<>>,
               out |-> Ok(GetVolumeNames(pvcItems, config, failing))]
    /\ UNCHANGED <<pods, frame, pools, gauges, config, monitor, now, failing, pvItems, pvcItems, tzAware,
                   vsItems, extents, shares, zfsSnaps>>

CallCheckOrphanedVolumes ==
    /\ ret' = [op |-> "check_orphaned_volumes", args |-> <<>>,
               out |-> Ok(CheckOrphanedVolumes(monitor, pvItems, pvcItems, config,
                                               extents, shares, failing))]
    /\ UNCHANGED <<pods, frame, pools, gauges, config, monitor, now, failing, pvItems, pvcItems, tzAware,
                   vsItems, extents, shares, zfsSnaps>>

NextMonVol ==
    \/ ApiProvisionVolume
    \/ ApiCreateClaim
    \/ ApiOutagePV
    \/ K8sClientInitFails
    \/ BackendCreateExtent
    \/ BackendExportShare
    \/ CallGetVolumeNames
    \/ CallCheckOrphanedVolumes

SpecMonVol == InitIdle /\ [][NextMonVol]_vars

----------------------------------------------------------------------------
(* Claims about the orchestrator's check of the backend volumes *)

\* the identifier a claim contributes: its bound volume, else its own name
ClaimIdentifier(pvc) == IF pvc.volume_name # None THEN pvc.volume_name[1] ELSE pvc.name

\* get_volume_names derives exactly the identifiers of the claims
C7_VolumeNamesFromClaims ==
    (ret.op = "get_volume_names" /\ failing = {}) =>
        ret.out.value = [i \in 1..Len(pvcItems) |-> ClaimIdentifier(pvcItems[i])]

\* C7: check_orphaned_volumes compares the backend volumes with the
\* identifiers derived from the claims (bound volume name, else the claim's
\* own name): with both clients available and every listing answering, no
\* backend volume named by a claim's identifier is reported as orphaned.
C7_ActiveSetFromClaims ==
    (/\ ret.op = "check_orphaned_volumes"
     /\ monitor.k8s_client /\ monitor.truenas_client
     /\ failing = {}) =>
        \A i \in 1..Len(pvcItems) : \A j \in 1..Len(ret.out.value.orphaned_volumes) :
            ret.out.value.orphaned_volumes[j].name # Text(ClaimIdentifier(pvcItems[i]))

----------------------------------------------------------------------------
(* Snapshots of the control plane *)

DefaultAgeThresholdMinutes == 1440

SnapshotName(i) ==
    IF i = 1 THEN "matched-snap" ELSE IF i = 2 THEN "orphaned-snapshot"
    ELSE IF i = 3 THEN "nightly-snap" ELSE "weekly-snap"

\* the VolumeSnapshot objects the API can return in position i: with or
\* without source claim and creationTimestamp, ready or not, created just
\* within or just beyond the default age threshold
VolumeSnapshotObjects(i, t) ==
    [name : {SnapshotName(i)},
     namespace : {"default"},
     source_pvc : {None, Some("pvc-active"), Some("pvc-deleted")},
     snapshot_class : {Some("democratic-csi")},
     ready_to_use : BOOLEAN,
     creation_timestamp : {None, Some(t - DefaultAgeThresholdMinutes),
                           Some(t - DefaultAgeThresholdMinutes - 1)}]

VolumeSnapshotInfo(snap) ==
    [name |-> snap.name,
     namespace |-> snap.namespace,
     source_pvc |-> snap.source_pvc,
     snapshot_class |-> snap.snapshot_class,
     ready_to_use |-> snap.ready_to_use,
     creation_time |-> snap.creation_timestamp]

\* K8sClient.get_volume_snapshots: every item of the listing
GetVolumeSnapshots(items, fail) ==
    IF "list_volume_snapshots" \in fail
    THEN Raised("ApiException")
    ELSE Ok(MapSeq(VolumeSnapshotInfo, items))

\* str() of an optional text inside an f-string: None prints as "None"
Str(opt) == IF opt = None THEN "None" ELSE opt[1]

\* the text dataset + "@" + name; neither part contains "@"
FullName(dataset, name) == <<dataset, name>>

\* variant of the layout templates without the bare-claim layout
PotentialNames_PoolLayoutsOnly(source_pvc, name) ==
    <<FullName(<<"tank", "k8s", "volumes", Str(source_pvc)>>, name),
      FullName(<<"pool0", "k8s", "volumes", Str(source_pvc)>>, name)>>

\* the candidate ids of lines 610-614 (and 553-557 of truenas_client.py)
PotentialNames(source_pvc, name) ==
    <<FullName(<<Str(source_pvc)>>, name),
      FullName(<<"tank", "k8s", "volumes", Str(source_pvc)>>, name),
      FullName(<<"pool0", "k8s", "volumes", Str(source_pvc)>>, name)>>

Range(s) == {s[i] : i \in 1..Len(s)}

\* line 616: none of the candidate ids is the full name of a backend snapshot
HasNoCounterpart(snap, backend) ==
    Range(PotentialNames(snap.source_pvc, snap.name))
        \cap {backend[i].full_name : i \in 1..Len(backend)} = {}

UnmatchedSnapshotOrphan(snap, t) ==
    [resource_type |-> "VolumeSnapshot",
     name |-> snap.name,
     namespace |-> Some(snap.namespace),
     volume_handle |-> None,
     creation_time |-> IF snap.creation_time = None THEN t ELSE snap.creation_time[1],
     size |-> None,
     location |-> "Kubernetes",
     reason |-> <<"No corresponding TrueNAS snapshot found">>,
     details |-> [source_pvc |-> snap.source_pvc, ready |-> snap.ready_to_use]]

StuckSnapshotOrphan(snap, minutes) ==
    [resource_type |-> "VolumeSnapshot",
     name |-> snap.name,
     namespace |-> Some(snap.namespace),
     volume_handle |-> None,
     creation_time |-> snap.creation_time[1],
     size |-> None,
     location |-> "Kubernetes",
     reason |-> <<"VolumeSnapshot not ready after", minutes, "minutes">>,
     details |-> [source_pvc |-> snap.source_pvc, ready |-> snap.ready_to_use]]

\* lines 636-637, for operands that can be compared
IsStuckSnapshot(snap, t, minutes) ==
    /\ snap.creation_time # None
    /\ snap.creation_time[1] < t - minutes
    /\ ~snap.ready_to_use

\* line 636 compares every creation time with datetime.now() - timedelta, a
\* naive datetime (line 597): an aware creation time raises TypeError
ComparesAwareWithNaive(snaps, aware) ==
    aware /\ \E i \in 1..Len(snaps) : snaps[i].creation_time # None

\* K8sClient.find_orphaned_snapshots; backend is None or Some(list); only
\* ApiException is caught (line 658)
FindOrphanedSnapshots(backend, minutes, items, fail, aware, t) ==
    LET snaps == GetVolumeSnapshots(items, fail)
    IN  IF snaps.status = "raised"
        THEN Ok(<<>>)
        ELSE IF ComparesAwareWithNaive(snaps.value, aware)
             THEN Raised("TypeError")
             ELSE Ok((IF backend = None
                      THEN <<>>
                      ELSE MapSeq(LAMBDA sn : UnmatchedSnapshotOrphan(sn, t),
                                  SelectSeq(snaps.value,
                                            LAMBDA sn : HasNoCounterpart(sn, backend[1]))))
                     \o MapSeq(LAMBDA sn : StuckSnapshotOrphan(sn, minutes),
                               SelectSeq(snaps.value,
                                         LAMBDA sn : IsStuckSnapshot(sn, t, minutes))))

----------------------------------------------------------------------------
(* Operations on the snapshots of the control plane *)

\* a user takes one more VolumeSnapshot
ApiCreateVolumeSnapshot ==
    /\ ret = NoCall
    /\ Len(vsItems) < MaxVolumeSnapshots
    /\ \E snap \in VolumeSnapshotObjects(Len(vsItems) + 1, now) :
           vsItems' = Append(vsItems, snap)
    /\ UNCHANGED <<pods, frame, pools, gauges, config, monitor, now, failing, pvItems, pvcItems, tzAware,
                   extents, shares, zfsSnaps, ret>>

\* the VolumeSnapshot listing starts to fail (ApiException)
ApiOutageSnapshots ==
    /\ ret = NoCall
    /\ failing = {}
    /\ failing' = {"list_volume_snapshots"}
    /\ UNCHANGED <<pods, frame, pools, gauges, config, monitor, now, pvItems, pvcItems, tzAware,
                   vsItems, extents, shares, zfsSnaps, ret>>

\* datasets under which a backend snapshot of claim pvc-active can live
BackendArgDatasets ==
    {<<"pvc-active">>, <<"tank", "k8s", "volumes", "pvc-active">>,
     <<"pool0", "k8s", "volumes", "pvc-active">>, <<"tank", "nfs", "pvc-active">>,
     <<"None">>}

\* the SnapshotInfo objects passed as truenas_snapshots
BackendArgSnapshots ==
    {[name |-> SnapshotName(1), dataset |-> d, creation_time |-> 0, used_size |-> 0,
      referenced_size |-> 0, full_name |-> FullName(d, SnapshotName(1))] :
        d \in BackendArgDatasets}

CallFindOrphanedSnapshots ==
    \E backend \in Opt(SeqsUpTo(BackendArgSnapshots, MaxBackendArg)) :
        /\ ret' = [op |-> "find_orphaned_snapshots", args |-> <<backend>>,
                   out |-> FindOrphanedSnapshots(backend, DefaultAgeThresholdMinutes,
                                                 vsItems, failing, tzAware, now)]
        /\ UNCHANGED <<pods, frame, pools, gauges, config, monitor, now, failing, pvItems, pvcItems, tzAware,
                       vsItems, extents, shares, zfsSnaps>>

NextVS ==
    \/ ApiCreateVolumeSnapshot
    \/ ApiOutageSnapshots
    \/ NaiveTimestamps
    \/ CallFindOrphanedSnapshots

SpecVS == InitIdle /\ [][NextVS]_vars

----------------------------------------------------------------------------
(* Claims about the snapshots of the control plane *)

\* the ids of the snapshots in a backend list
BackendIds(backend) == {backend[i].full_name : i \in 1..Len(backend)}

\* the entries that report a snapshot as lacking a backend counterpart
Unmatched(entries) ==
    SelectSeq(entries, LAMBDA o : o.reason = <<"No corresponding TrueNAS snapshot found">>)

\* the candidate ids of a snapshot, from the layouts: the claim itself,
\* tank/k8s/volumes/<claim>, pool0/k8s/volumes/<claim>
CandidateIds(snap) ==
    LET claim == IF snap.source_pvc = None THEN "None" ELSE snap.source_pvc[1]
    IN  {<<<<claim>>, snap.name>>,
         <<<<"tank", "k8s", "volumes", claim>>, snap.name>>,
         <<<<"pool0", "k8s", "volumes", claim>>, snap.name>>}

\* snapshot i is reported as unmatched exactly when no candidate id is in B
ReportsUnmatched(entries, backend) ==
    \A i \in 1..Len(vsItems) :
        (EntriesNamed(Unmatched(entries), vsItems[i].name) # {})
        <=> (CandidateIds(vsItems[i]) \cap BackendIds(backend) = {})

\* C8: given the backend list B and an answering snapshot listing,
\* find_orphaned_snapshots(B) reports a control-plane snapshot as lacking a
\* backend counterpart if and only if none of its candidate ids, generated
\* from a fixed list of at most 4 layout templates, is the id of a snapshot
\* in B.
C8_UnmatchedIffNoCandidate ==
    (ret.op = "find_orphaned_snapshots" /\ ret.args[1] # None /\ failing = {}) =>
        /\ ret.out.status = "ok"
        /\ ReportsUnmatched(ret.out.value, ret.args[1][1])
        /\ \A i \in 1..Len(vsItems) :
               Len(PotentialNames(vsItems[i].source_pvc, vsItems[i].name)) <= 4

\* what find_orphaned_snapshots guarantees: whenever it returns a list for a
\* given B, the list reports exactly the snapshots without candidate in B
C8_UnmatchedWhenReturned ==
    (/\ ret.op = "find_orphaned_snapshots" /\ ret.args[1] # None /\ failing = {}
     /\ ret.out.status = "ok") =>
        ReportsUnmatched(ret.out.value, ret.args[1][1])

----------------------------------------------------------------------------
(* Snapshots of the storage backend *)

DefaultAgeThresholdDays == 30

MinutesPerDay == 24 * 60

\* the datasets the backend can hold snapshots of
BackendDatasets ==
    {<<"tank", "k8s", "volumes", "pvc-active">>,
     <<"tank", "k8s", "volumes", "pvc-deleted">>,
     <<"pvc-active">>,
     <<"tank", "nfs", "pvc-active">>,
     <<"tank", "democratic-csi", "data">>,
     <<"tank", "k8s", "data">>,
     <<"k8s", "data">>,
     <<"tank", "backups", "manual">>}

BackendSnapshotNames == {"matched-snap", "orphaned-snapshot"}

\* ages at and just beyond the default threshold of 30 days
BackendSnapshotAges ==
    {DefaultAgeThresholdDays * MinutesPerDay, DefaultAgeThresholdDays * MinutesPerDay + 1}

\* one record of the /zfs/snapshot response; id is dataset@snapshot_name
BackendSnapshotObjects(t) ==
    {[snapshot_name |-> n, dataset |-> d, id |-> FullName(d, n), creation |-> t - a,
      used |-> 1024, referenced |-> 2048] :
        n \in BackendSnapshotNames, d \in BackendDatasets, a \in BackendSnapshotAges}

SnapshotInfo(data) ==
    [name |-> data.snapshot_name,
     dataset |-> data.dataset,
     creation_time |-> data.creation,
     used_size |-> data.used,
     referenced_size |-> data.referenced,
     full_name |-> data.id]

\* a record whose creation value is text that int() accepts has the field
\* creation, the integer; any other record keeps the text as creation_text
HasIntegerCreation(data) == "creation" \in DOMAIN data

\* TrueNASClient.get_snapshots without dataset filter; the ValueError of
\* int() at line 331 is not a RequestException and leaves the method
GetSnapshots(records, fail) ==
    IF "zfs/snapshot" \in fail
    THEN Raised("TrueNASError")
    ELSE IF \E i \in 1..Len(records) : ~HasIntegerCreation(records[i])
         THEN Raised("ValueError")
         ELSE Ok(MapSeq(SnapshotInfo, records))

\* the segments that contain the text "pvc-"
PvcSegments == {"pvc-active", "pvc-deleted", "pvc-a", "pvc-b"}

\* the segments that contain the text "democratic-csi"
DemocraticCsiSegments == {"democratic-csi"}

\* "/k8s/" in dataset: a segment k8s with a segment before and after it
ContainsK8sSegment(dataset) ==
    \E i \in 2..(Len(dataset) - 1) : dataset[i] = "k8s"

\* any(pattern in dataset for pattern in ['/k8s/', 'pvc-', 'democratic-csi'])
LooksLikeK8sSnapshot(dataset) ==
    \/ ContainsK8sSegment(dataset)
    \/ \E i \in 1..Len(dataset) : dataset[i] \in PvcSegments
    \/ \E i \in 1..Len(dataset) : dataset[i] \in DemocraticCsiSegments

\* lines 548-558: the candidate ids of all the control-plane snapshots
K8sSnapshotIds(k8s) ==
    UNION {Range(PotentialNames(k8s[i].source_pvc, k8s[i].name)) : i \in 1..Len(k8s)}

\* lines 561-565
IsUnmatchedBackendSnapshot(snap, k8s) ==
    /\ snap.full_name \notin K8sSnapshotIds(k8s)
    /\ LooksLikeK8sSnapshot(snap.dataset)

\* variant of the age test that no snapshot passes
IsOldBackendSnapshot_Never(snap, t, days) ==
    /\ snap.creation_time < snap.creation_time
    /\ t = t /\ days = days

\* lines 569-572
IsOldBackendSnapshot(snap, t, days) ==
    /\ snap.creation_time < t - days * MinutesPerDay
    /\ LooksLikeK8sSnapshot(snap.dataset)

\* TrueNASClient.find_orphaned_truenas_snapshots; k8s is None or Some(list);
\* every exception is caught (line 579)
FindOrphanedTruenasSnapshots(k8s, days, records, fail, t) ==
    LET snaps == GetSnapshots(records, fail)
    IN  IF snaps.status = "raised"
        THEN Ok(<<>>)
        ELSE LET unmatched == IF k8s = None
                              THEN <<>>
                              ELSE SelectSeq(snaps.value,
                                             LAMBDA sn : IsUnmatchedBackendSnapshot(sn, k8s[1]))
             IN  Ok(unmatched
                    \o SelectSeq(snaps.value,
                                 LAMBDA sn : /\ IsOldBackendSnapshot(sn, t, days)
                                             /\ sn \notin Range(unmatched)))

----------------------------------------------------------------------------
(* Operations on the snapshots of the storage backend *)

\* the backend holds one more snapshot; a snapshot id is unique
BackendTakeSnapshot ==
    /\ ret = NoCall
    /\ Len(zfsSnaps) < MaxBackendSnapshots
    /\ \E data \in BackendSnapshotObjects(now) :
           /\ \A i \in 1..Len(zfsSnaps) : zfsSnaps[i].id # data.id
           /\ zfsSnaps' = Append(zfsSnaps, data)
    /\ UNCHANGED <<pods, frame, pools, gauges, config, monitor, now, failing, pvItems, pvcItems, tzAware,
                   vsItems, extents, shares, ret>>

\* the /zfs/snapshot request starts to fail
BackendOutageSnapshots ==
    /\ ret = NoCall
    /\ failing = {}
    /\ failing' = {"zfs/snapshot"}
    /\ UNCHANGED <<pods, frame, pools, gauges, config, monitor, now, pvItems, pvcItems, tzAware,
                   vsItems, extents, shares, zfsSnaps, ret>>

\* the VolumeSnapshotInfo objects passed as k8s_snapshots
ControlArgSnapshots ==
    {VolumeSnapshotInfo(snap) :
        snap \in [name : {"matched-snap"},
                  namespace : {"default"},
                  source_pvc : {None, Some("pvc-active")},
                  snapshot_class : {Some("democratic-csi")},
                  ready_to_use : {TRUE},
                  creation_timestamp : {None}]}

CallFindOrphanedTruenasSnapshots ==
    \E k8s \in Opt(SeqsUpTo(ControlArgSnapshots, MaxControlArg)) :
        /\ ret' = [op |-> "find_orphaned_truenas_snapshots", args |-> <<k8s>>,
                   out |-> FindOrphanedTruenasSnapshots(k8s, DefaultAgeThresholdDays,
                                                        zfsSnaps, failing, now)]
        /\ UNCHANGED <<pods, frame, pools, gauges, config, monitor, now, failing, pvItems, pvcItems, tzAware,
                       vsItems, extents, shares, zfsSnaps>>

NextZfs ==
    \/ BackendTakeSnapshot
    \/ BackendOutageSnapshots
    \/ CallFindOrphanedTruenasSnapshots

SpecZfs == InitIdle /\ [][NextZfs]_vars

----------------------------------------------------------------------------
(* Claims about the snapshots of the storage backend *)

\* a call of find_orphaned_truenas_snapshots(K) that obtained the listing
ComparedWithList ==
    /\ ret.op = "find_orphaned_truenas_snapshots"
    /\ ret.args[1] # None
    /\ failing = {}

\* the list K of that call
GivenList == ret.args[1][1]

\* how often backend snapshot i is in the returned list
TimesListed(i) ==
    Cardinality({j \in 1..Len(ret.out.value) :
                    ret.out.value[j].full_name = zfsSnaps[i].id})

OlderThanThreshold(i) ==
    now - zfsSnaps[i].creation > DefaultAgeThresholdDays * MinutesPerDay

\* the full id is among the candidate ids of some snapshot of K
MatchedBy(i, k8s) ==
    \E j \in 1..Len(k8s) : zfsSnaps[i].id \in CandidateIds(k8s[j])

\* the dataset contains '/k8s/', 'pvc-' or 'democratic-csi'
HeuristicDatasets ==
    BackendDatasets \ {<<"k8s", "data">>, <<"tank", "backups", "manual">>}

\* C9: given the control-plane list K, find_orphaned_truenas_snapshots(K)
\* lists a backend snapshot that is not older than the age threshold if and
\* only if its full id is in none of the candidate sets of K and its dataset
\* contains '/k8s/', 'pvc-' or 'democratic-csi'.
C9_UnmatchedHeuristicListed ==
    ComparedWithList =>
        \A i \in 1..Len(zfsSnaps) :
                ~OlderThanThreshold(i) =>
                    ((TimesListed(i) > 0)
                     <=> (~MatchedBy(i, GivenList) /\ zfsSnaps[i].dataset \in HeuristicDatasets))

\* tank/k8s/volumes/pvc-active@matched-snap is matched by (pvc-active,
\* matched-snap) and not listed; pvc-deleted@orphaned-snapshot is listed
C9_Witness ==
    /\ ret.op = "find_orphaned_truenas_snapshots"
    /\ failing = {}
    /\ Len(ret.args[1]) = 1 /\ Len(ret.args[1][1]) = 1
    /\ ret.args[1][1][1].source_pvc = Some("pvc-active")
    /\ Len(zfsSnaps) = 2
    /\ zfsSnaps[1].id = <<<<"tank", "k8s", "volumes", "pvc-active">>, "matched-snap">>
    /\ zfsSnaps[2].id = <<<<"tank", "k8s", "volumes", "pvc-deleted">>, "orphaned-snapshot">>
    /\ ~OlderThanThreshold(1) /\ ~OlderThanThreshold(2)
    /\ Len(ret.out.value) = 1
    /\ ret.out.value[1].full_name = zfsSnaps[2].id

\* C10 as stated: a backend snapshot older than the threshold whose dataset
\* matches the heuristic is flagged even when a control-plane snapshot
\* matches it, under a reason that tells 'stale' from 'no control-plane
\* counterpart'; an old snapshot whose dataset does not match is never
\* flagged.
C10_StaleFlaggedUnderOwnReason ==
    ComparedWithList =>
        \A i \in 1..Len(zfsSnaps) :
                OlderThanThreshold(i) =>
                    IF zfsSnaps[i].dataset \in HeuristicDatasets
                    THEN \E j \in 1..Len(ret.out.value) :
                            /\ ret.out.value[j].full_name = zfsSnaps[i].id
                            /\ "reason" \in DOMAIN ret.out.value[j]
                            /\ (MatchedBy(i, GivenList) <=> ret.out.value[j].reason = "stale")
                    ELSE TimesListed(i) = 0

\* C10, amended: a backend snapshot older than the threshold whose dataset
\* matches the heuristic is listed exactly once, matched or not, as the
\* snapshot object itself, which carries no reason: the list does not tell
\* 'stale' from 'no control-plane counterpart'; an old snapshot whose
\* dataset does not match the heuristic is never listed.
C10_StaleListedWithoutReason ==
    ComparedWithList =>
        \A i \in 1..Len(zfsSnaps) :
                OlderThanThreshold(i) =>
                    IF zfsSnaps[i].dataset \in HeuristicDatasets
                    THEN /\ TimesListed(i) = 1
                         /\ \A j \in 1..Len(ret.out.value) :
                                ret.out.value[j].full_name = zfsSnaps[i].id =>
                                    /\ ret.out.value[j] = SnapshotInfo(zfsSnaps[i])
                                    /\ "reason" \notin DOMAIN ret.out.value[j]
                    ELSE TimesListed(i) = 0

\* an old snapshot of tank/k8s/volumes/pvc-active that K matches is listed,
\* next to an old snapshot outside the heuristic that is not
C10_Witness ==
    /\ ret.op = "find_orphaned_truenas_snapshots"
    /\ failing = {}
    /\ Len(ret.args[1]) = 1 /\ Len(ret.args[1][1]) = 1
    /\ Len(zfsSnaps) = 2
    /\ OlderThanThreshold(1) /\ OlderThanThreshold(2)
    /\ MatchedBy(1, ret.args[1][1])
    /\ zfsSnaps[2].dataset = <<"tank", "backups", "manual">>
    /\ Len(ret.out.value) = 1
    /\ ret.out.value[1].full_name = zfsSnaps[1].id

----------------------------------------------------------------------------
(* Snapshot reconciliation in both directions *)

\* monitor.py lines 108-113: both listings, then both directions; the first
\* exception ends the sequence
SnapshotReconciliation(items, records, fail, aware, t) ==
    LET k8s == GetVolumeSnapshots(items, fail)
        truenas == GetSnapshots(records, fail)
    IN  IF k8s.status = "raised" THEN k8s
        ELSE IF truenas.status = "raised" THEN truenas
        ELSE LET orphanedK8s ==
                     FindOrphanedSnapshots(Some(truenas.value), DefaultAgeThresholdMinutes,
                                           items, fail, aware, t)
                 orphanedTruenas ==
                     FindOrphanedTruenasSnapshots(Some(k8s.value), DefaultAgeThresholdDays,
                                                  records, fail, t)
             IN  IF orphanedK8s.status = "raised" THEN orphanedK8s
                 ELSE Ok([k8s_without_truenas |-> orphanedK8s.value,
                          truenas_without_k8s |-> orphanedTruenas.value])

\* a user snapshots claim pvc-active
ApiSnapshotClaim ==
    /\ ret = NoCall
    /\ Len(vsItems) < MaxVolumeSnapshots
    /\ \E snap \in VolumeSnapshotObjects(Len(vsItems) + 1, now) :
           /\ snap.source_pvc = Some("pvc-active")
           /\ snap.creation_timestamp # Some(now - DefaultAgeThresholdMinutes)
           /\ vsItems' = Append(vsItems, snap)
    /\ UNCHANGED <<pods, frame, pools, gauges, config, monitor, now, failing, pvItems, pvcItems, tzAware,
                   extents, shares, zfsSnaps, ret>>

\* the backend holds one more snapshot named matched-snap
BackendSnapshotOfVolume ==
    /\ ret = NoCall
    /\ Len(zfsSnaps) < MaxBackendSnapshots
    /\ \E data \in BackendSnapshotObjects(now) :
           /\ data.snapshot_name = "matched-snap"
           /\ data.dataset \in {<<"tank", "k8s", "volumes", "pvc-active">>,
                                 <<"tank", "k8s", "volumes", "pvc-deleted">>,
                                 <<"tank", "backups", "manual">>}
           /\ \A i \in 1..Len(zfsSnaps) : zfsSnaps[i].id # data.id
           /\ zfsSnaps' = Append(zfsSnaps, data)
    /\ UNCHANGED <<pods, frame, pools, gauges, config, monitor, now, failing, pvItems, pvcItems, tzAware,
                   vsItems, extents, shares, ret>>

\* the run number of the last reconciliation, 0 before the first
RunsDone == IF ret.op = "snapshot_reconciliation" THEN ret.args[1] ELSE 0

\* variant of a run that deletes the backend snapshots it has listed
RunReconciliation_Consuming ==
    /\ RunsDone < MaxRuns
    /\ ret' = [op |-> "snapshot_reconciliation", args |-> <<RunsDone + 1>>,
               out |-> SnapshotReconciliation(vsItems, zfsSnaps, failing, tzAware, now)]
    /\ zfsSnaps' = <<>>
    /\ UNCHANGED <<pods, frame, pools, gauges, config, monitor, now, failing, pvItems, pvcItems, tzAware,
                   vsItems, extents, shares>>

\* one more run of both directions on the snapshots as they are
RunReconciliation ==
    /\ RunsDone < MaxRuns
    /\ ret' = [op |-> "snapshot_reconciliation", args |-> <<RunsDone + 1>>,
               out |-> SnapshotReconciliation(vsItems, zfsSnaps, failing, tzAware, now)]
    /\ UNCHANGED <<pods, frame, pools, gauges, config, monitor, now, failing, pvItems, pvcItems, tzAware,
                   vsItems, extents, shares, zfsSnaps>>

NextRecon ==
    \/ ApiSnapshotClaim
    \/ BackendSnapshotOfVolume
    \/ NaiveTimestamps
    \/ ApiOutageSnapshots
    \/ BackendOutageSnapshots
    \/ RunReconciliation

SpecRecon == InitIdle /\ [][NextRecon]_vars

----------------------------------------------------------------------------
(* Floats *)

RECURSIVE Gcd(_, _)
Gcd(a, b) == IF b = 0 THEN a ELSE Gcd(b, a % b)

\* the float n / d, for n >= 0 and d > 0
Ratio(n, d) ==
    LET g == Gcd(n, d) IN [num |-> n \div g, den |-> d \div g]

Float(n) == Ratio(n, 1)

Times(x, n) == Ratio(x.num * n, x.den)

\* x > n
Exceeds(x, n) == x.num > n * x.den

\* x >= n
AtLeast(x, n) == x.num >= n * x.den

----------------------------------------------------------------------------
(* Storage pools *)

\* 1024 ** 3 bytes
GiB == 1024

PoolName(i) ==
    IF i = 1 THEN "tank" ELSE IF i = 2 THEN "backup" ELSE IF i = 3 THEN "pool0" ELSE "pool1"

\* the size and the allocation, in GiB, and the fragmentation of a pool
PoolStates ==
    {<<0, 0, "0%">>, <<10, 5, "10%">>, <<100, 80, "10%">>, <<100, 81, "30%">>,
     <<100, 90, "10%">>, <<100, 91, "10%">>}

\* one record of the /pool response
PoolObjects(i) ==
    {[name |-> PoolName(i), status |-> "ONLINE", size |-> st[1] * GiB,
      allocated |-> st[2] * GiB, free |-> (st[1] - st[2]) * GiB,
      fragmentation |-> st[3], healthy |-> TRUE] : st \in PoolStates}

PoolInfo(data) ==
    [name |-> data.name,
     status |-> data.status,
     total_size |-> data.size,
     used_size |-> data.allocated,
     free_size |-> data.free,
     fragmentation |-> data.fragmentation,
     healthy |-> data.healthy]

\* TrueNASClient.get_pools; the KeyError of pool_data["name"] at line 195 is
\* not a RequestException and leaves the method
GetPools(records, fail) ==
    IF "pool" \in fail
    THEN Raised("TrueNASError")
    ELSE IF \E i \in 1..Len(records) : "name" \notin DOMAIN records[i]
         THEN Raised("KeyError")
         ELSE Ok(MapSeq(PoolInfo, records))

\* variant of the utilization that counts the free share
Utilization_OfFree(used, total) ==
    IF total > 0 THEN Times(Ratio(total - used, total), 100) ELSE Float(0)

\* (used / total) * 100 if total > 0 else 0
Utilization(used, total) ==
    IF total > 0 THEN Times(Ratio(used, total), 100) ELSE Float(0)

\* the entry of check_storage_usage for one pool (lines 148-155)
PoolUsage(pool) ==
    [name |-> pool.name,
     total |-> pool.total_size,
     used |-> pool.used_size,
     free |-> pool.free_size,
     healthy |-> pool.healthy,
     status |-> pool.status,
     fragmentation |-> pool.fragmentation]

\* Monitor.check_storage_usage: the entries of result["pools"], in the order
\* of the listing; a failure of the listing leaves it empty
CheckStorageUsage(mon, records, fail) ==
    IF ~mon.truenas_client
    THEN [pools |-> <<>>]
    ELSE LET listed == GetPools(records, fail)
         IN  IF listed.status = "raised"
             THEN [pools |-> <<>>]
             ELSE [pools |-> MapSeq(PoolUsage, listed.value)]

\* Gauge.labels(...).set(value): the samples after the sample of the given
\* metric and label values is set; a gauge stores a float
SetGauge(samples, metric, labels, value) ==
    {sm \in samples : ~(sm.metric = metric /\ sm.labels = labels)}
    \cup {[metric |-> metric, labels |-> labels, value |-> value]}

\* lines 249-276 of metrics.py: the samples after those of one pool are set
SetPoolGauges(samples, pool) ==
    LET sized == SetGauge(SetGauge(SetGauge(samples,
                     "storage_pool_size_bytes", <<pool.name, "total">>, Float(pool.total)),
                     "storage_pool_size_bytes", <<pool.name, "used">>, Float(pool.used)),
                     "storage_pool_size_bytes", <<pool.name, "free">>, Float(pool.free))
        rated == SetGauge(sized, "storage_pool_utilization_percent", <<pool.name>>,
                          Utilization(pool.used, pool.total))
    IN  SetGauge(rated, "storage_pool_health", <<pool.name, pool.status>>,
                 Float(IF pool.healthy THEN 1 ELSE 0))

\* TrueNASMetrics.update_storage_metrics: the samples after the update
RECURSIVE UpdateStorageMetrics(_, _)
UpdateStorageMetrics(samples, usage) ==
    IF usage.pools = <<>> THEN samples
    ELSE UpdateStorageMetrics(SetPoolGauges(samples, Head(usage.pools)),
                              [pools |-> Tail(usage.pools)])

\* TrueNASMetrics.update_efficiency_metrics: the samples after the update
UpdateEfficiencyMetrics(samples, analysis) ==
    LET overall == analysis.overall_efficiency
    IN  SetGauge(SetGauge(SetGauge(samples,
            "thin_provisioning_ratio", <<"overall">>, overall.thin_provisioning_ratio),
            "compression_ratio", <<"overall">>, overall.compression_ratio),
            "snapshot_overhead_percent", <<"overall">>, overall.snapshot_overhead_percent)

----------------------------------------------------------------------------
(* Snapshot usage analysis *)

RECURSIVE SumSeq(_)
SumSeq(s) == IF s = <<>> THEN 0 ELSE Head(s) + SumSeq(Tail(s))

CountSeq(s, Test(_)) == Len(SelectSeq(s, Test))

\* timedelta.days of an age given in minutes: the whole days, rounded down
Days(minutes) == minutes \div MinutesPerDay

\* variant of the buckets whose limits belong to the younger bucket
AgeBucket_Inclusive(snap, t) ==
    IF snap.creation_time >= t - MinutesPerDay THEN "last_24h"
    ELSE IF snap.creation_time >= t - 7 * MinutesPerDay THEN "last_week"
    ELSE IF snap.creation_time >= t - 30 * MinutesPerDay THEN "last_month"
    ELSE "older"

\* lines 654-661: the bucket of a snapshot
AgeBucket(snap, t) ==
    IF snap.creation_time > t - MinutesPerDay THEN "last_24h"
    ELSE IF snap.creation_time > t - 7 * MinutesPerDay THEN "last_week"
    ELSE IF snap.creation_time > t - 30 * MinutesPerDay THEN "last_month"
    ELSE "older"

\* dataset.split('/')[-1]
VolumeKey(dataset) == dataset[Len(dataset)]

\* lines 636-648: count, size and latest creation time of one volume
VolumeUsage(snaps, key) ==
    LET mine == SelectSeq(snaps, LAMBDA sn : VolumeKey(sn.dataset) = key)
    IN  [count |-> Len(mine),
         total_size |-> SumSeq(MapSeq(LAMBDA sn : sn.used_size, mine)),
         latest_snapshot |->
             CHOOSE c \in {mine[i].creation_time : i \in 1..Len(mine)} :
                 \A i \in 1..Len(mine) : mine[i].creation_time <= c]

\* lines 670-676
LargeSnapshot(snap, t) ==
    [name |-> snap.name,
     dataset |-> snap.dataset,
     size_gb |-> Ratio(snap.used_size, GiB),
     age_days |-> Days(t - snap.creation_time)]

\* the analysis before any snapshot is counted (lines 592-607)
EmptyAnalysis ==
    [total_snapshots |-> 0,
     total_snapshot_size |-> 0,
     snapshots_by_volume |-> <<>>,
     oldest_snapshot |-> None,
     newest_snapshot |-> None,
     average_snapshot_age_days |-> Float(0),
     snapshots_by_age |-> [last_24h |-> 0, last_week |-> 0, last_month |-> 0, older |-> 0],
     large_snapshots |-> <<>>,
     recommendations |-> <<>>]

\* lines 683-696
UsageRecommendations(older, size, large) ==
    (IF older > 10 THEN <<<<"Consider cleaning up", older, "snapshots older than 30 days">>>>
     ELSE <<>>)
    \o (IF size > 100 * GiB
        THEN <<<<"Total snapshot size is", Ratio(size, GiB), "GB - consider retention policy">>>>
        ELSE <<>>)
    \o (IF large > 5
        THEN <<<<"Found", large, "large snapshots (>1GB) - review if all are needed">>>>
        ELSE <<>>)

\* TrueNASClient.analyze_snapshot_usage without volume_name; every exception
\* is caught and the analysis returned as far as it got (line 701)
AnalyzeSnapshotUsage(records, fail, t) ==
    LET listed == GetSnapshots(records, fail)
    IN  IF listed.status = "raised" \/ listed.value = <<>>
        THEN EmptyAnalysis
        ELSE LET snaps == listed.value
                 times == {snaps[i].creation_time : i \in 1..Len(snaps)}
                 size == SumSeq(MapSeq(LAMBDA sn : sn.used_size, snaps))
                 large == SelectSeq(snaps, LAMBDA sn : sn.used_size > GiB)
                 InBucket(b) == CountSeq(snaps, LAMBDA sn : AgeBucket(sn, t) = b)
             IN  [total_snapshots |-> Len(snaps),
                  total_snapshot_size |-> size,
                  snapshots_by_volume |->
                      [key \in {VolumeKey(snaps[i].dataset) : i \in 1..Len(snaps)} |->
                          VolumeUsage(snaps, key)],
                  oldest_snapshot |-> Some(CHOOSE c \in times : \A d \in times : c <= d),
                  newest_snapshot |-> Some(CHOOSE c \in times : \A d \in times : d <= c),
                  average_snapshot_age_days |->
                      Ratio(SumSeq(MapSeq(LAMBDA sn : Days(t - sn.creation_time), snaps)),
                            Len(snaps)),
                  snapshots_by_age |-> [last_24h |-> InBucket("last_24h"),
                                        last_week |-> InBucket("last_week"),
                                        last_month |-> InBucket("last_month"),
                                        older |-> InBucket("older")],
                  large_snapshots |-> MapSeq(LAMBDA sn : LargeSnapshot(sn, t), large),
                  recommendations |-> UsageRecommendations(InBucket("older"), size, Len(large))]

----------------------------------------------------------------------------
(* Storage efficiency analysis *)

\* the capacity strings of the volumes
Capacities == {"10Gi", "5Gi", "1Ti", "512Mi", "Gi", "1.5Gi", "abc", ""}

\* a string as the sequence of its characters
Chars(str) ==
    CASE str = "10Gi" -> <<"1", "0", "G", "i">>
      [] str = "5Gi" -> <<"5", "G", "i">>
      [] str = "1Ti" -> <<"1", "T", "i">>
      [] str = "512Mi" -> <<"5", "1", "2", "M", "i">>
      [] str = "Gi" -> <<"G", "i">>
      [] str = "1.5Gi" -> <<"1", ".", "5", "G", "i">>
      [] str = "abc" -> <<"a", "b", "c">>
      [] str = "0%" -> <<"0", "%">>
      [] str = "10%" -> <<"1", "0", "%">>
      [] str = "30%" -> <<"3", "0", "%">>
      [] str = "" -> <<>>

\* str.endswith(suffix)
EndsWith(chars, suffix) ==
    /\ Len(chars) >= Len(suffix)
    /\ SubSeq(chars, Len(chars) - Len(suffix) + 1, Len(chars)) = suffix

\* str.rstrip(set): drops every trailing character of the set
RECURSIVE RStrip(_, _)
RStrip(chars, set) ==
    IF chars # <<>> /\ chars[Len(chars)] \in set
    THEN RStrip(SubSeq(chars, 1, Len(chars) - 1), set)
    ELSE chars

Digit(c) ==
    CASE c = "0" -> 0 [] c = "1" -> 1 [] c = "2" -> 2 [] c = "3" -> 3 [] c = "4" -> 4
      [] c = "5" -> 5 [] c = "6" -> 6 [] c = "7" -> 7 [] c = "8" -> 8 [] c = "9" -> 9

Digits == {"0", "1", "2", "3", "4", "5", "6", "7", "8", "9"}

RECURSIVE Decimal(_)
Decimal(chars) ==
    IF chars = <<>> THEN 0
    ELSE 10 * Decimal(SubSeq(chars, 1, Len(chars) - 1)) + Digit(chars[Len(chars)])

\* int(text) and float(text) of an unsigned text: ValueError unless it is a
\* non-empty run of digits (float also reads "1.5", which no pool reports)
ParseInt(chars) ==
    IF chars # <<>> /\ \A i \in 1..Len(chars) : chars[i] \in Digits
    THEN Ok(Decimal(chars))
    ELSE Raised("ValueError")

\* line 364: the volumes that enter the sum
CountsCapacity(pv) ==
    EndsWith(Chars(pv.capacity), <<"G", "i">>)

\* line 362: the bytes of one volume
CapacityBytes(pv) ==
    LET n == ParseInt(RStrip(Chars(pv.capacity), {"G", "i"}))
    IN  IF n.status = "raised" THEN n ELSE Ok(n.value * GiB)

\* lines 361-365: the sum, or the ValueError of the first capacity that
\* int() rejects
K8sAllocated(pvs) ==
    LET counted == SelectSeq(pvs, CountsCapacity)
    IN  IF \E i \in 1..Len(counted) : CapacityBytes(counted[i]).status = "raised"
        THEN Raised("ValueError")
        ELSE Ok(SumSeq(MapSeq(LAMBDA pv : CapacityBytes(pv).value, counted)))

\* lines 345-352
PoolEfficiency(pool) ==
    [name |-> pool.name,
     capacity_gb |-> Ratio(pool.total_size, GiB),
     used_gb |-> Ratio(pool.used_size, GiB),
     utilization_percent |-> Utilization(pool.used_size, pool.total_size),
     fragmentation |-> pool.fragmentation,
     health |-> pool.healthy]

\* lines 388-397: the recommendations of one pool
PoolRecommendations(pool) ==
    (IF Exceeds(pool.utilization_percent, 80)
     THEN <<<<"Pool", pool.name, "is", pool.utilization_percent,
              "% full - consider expansion">>>>
     ELSE <<>>)
    \o (IF /\ pool.fragmentation # ""
           /\ ParseInt(RStrip(Chars(pool.fragmentation), {"%"})).value > 25
        THEN <<<<"Pool", pool.name, "has", pool.fragmentation,
                 "fragmentation - consider defragmentation">>>>
        ELSE <<>>)

RECURSIVE Flatten(_)
Flatten(ss) == IF ss = <<>> THEN <<>> ELSE Head(ss) \o Flatten(Tail(ss))

\* the result before anything is computed (lines 321-332)
EmptyEfficiency ==
    [overall_efficiency |-> [thin_provisioning_ratio |-> Float(0),
                             compression_ratio |-> Float(1),
                             deduplication_ratio |-> Float(1),
                             snapshot_overhead_percent |-> Float(0)],
     volume_efficiency |-> <<>>,
     pool_efficiency |-> <<>>,
     recommendations |-> <<>>,
     potential_savings_gb |-> Float(0)]

\* lines 377-397, from the figures computed before
EfficiencyRecommendations(ratio, overhead, poolEntries) ==
    (IF Exceeds(ratio, 2)
     THEN <<<<"High thin provisioning ratio detected - monitor for potential overcommitment">>>>
     ELSE <<>>)
    \o (IF Exceeds(overhead, 20)
        THEN <<<<"Snapshot overhead is", overhead, "% - consider snapshot cleanup">>>>
        ELSE <<>>)
    \o Flatten(MapSeq(PoolRecommendations, poolEntries))

\* Monitor.analyze_storage_efficiency; an exception ends the analysis and the
\* result is returned as far as it got (line 401)
AnalyzeStorageEfficiency(mon, poolRecords, pvList, cfg, snapRecords, fail, t) ==
    IF ~mon.truenas_client THEN EmptyEfficiency
    ELSE
    LET listed == GetPools(poolRecords, fail)
    IN  IF listed.status = "raised" THEN EmptyEfficiency
        ELSE
        LET entries == MapSeq(PoolEfficiency, listed.value)
            totalUsed == SumSeq(MapSeq(LAMBDA pl : pl.used_size, listed.value))
            withPools == [EmptyEfficiency EXCEPT !.pool_efficiency = entries]
            pvs == IF mon.k8s_client THEN GetPersistentVolumes(pvList, cfg, fail) ELSE Ok(<<>>)
            allocated == IF pvs.status = "raised" THEN pvs ELSE K8sAllocated(pvs.value)
        IN  IF allocated.status = "raised" THEN withPools
            ELSE
            LET ratio == IF mon.k8s_client /\ totalUsed > 0
                         THEN Ratio(allocated.value, totalUsed) ELSE Float(0)
                snapshotSize == AnalyzeSnapshotUsage(snapRecords, fail, t).total_snapshot_size
                overhead == IF totalUsed > 0
                            THEN Times(Ratio(snapshotSize, totalUsed), 100) ELSE Float(0)
            IN  [withPools EXCEPT
                    !.overall_efficiency.thin_provisioning_ratio = ratio,
                    !.overall_efficiency.snapshot_overhead_percent = overhead,
                    !.recommendations = EfficiencyRecommendations(ratio, overhead, entries)]

----------------------------------------------------------------------------
(* Operations on the storage pools *)

\* the backend reports one more pool
BackendCreatePool ==
    /\ ret = NoCall
    /\ Len(pools) < MaxPools
    /\ \E data \in PoolObjects(Len(pools) + 1) : pools' = Append(pools, data)
    /\ UNCHANGED <<pods, frame, gauges, config, monitor, now, failing, pvItems, pvcItems, tzAware,
                   vsItems, extents, shares, zfsSnaps, ret>>

\* the /pool request starts to fail
BackendOutagePools ==
    /\ ret = NoCall
    /\ failing = {}
    /\ failing' = {"pool"}
    /\ UNCHANGED <<pods, frame, pools, gauges, config, monitor, now, pvItems, pvcItems, tzAware,
                   vsItems, extents, shares, zfsSnaps, ret>>

\* Monitor.check_storage_usage with its update of the metrics (line 164)
CallCheckStorageUsage ==
    LET usage == CheckStorageUsage(monitor, pools, failing)
    IN  /\ ret' = [op |-> "check_storage_usage", args |-> <<>>, out |-> Ok(usage)]
        /\ gauges' = UpdateStorageMetrics(gauges, usage)
        /\ UNCHANGED <<pods, frame, pools, config, monitor, now, failing, pvItems, pvcItems, tzAware,
                       vsItems, extents, shares, zfsSnaps>>

\* Monitor.analyze_storage_efficiency with its update of the metrics (line
\* 406), which the return of line 336 skips
CallAnalyzeStorageEfficiency ==
    LET analysis == AnalyzeStorageEfficiency(monitor, pools, pvItems, config,
                                             zfsSnaps, failing, now)
    IN  /\ ret' = [op |-> "analyze_storage_efficiency", args |-> <<>>, out |-> Ok(analysis)]
        /\ gauges' = IF monitor.truenas_client
                      THEN UpdateEfficiencyMetrics(gauges, analysis) ELSE gauges
        /\ UNCHANGED <<pods, frame, pools, config, monitor, now, failing, pvItems, pvcItems, tzAware,
                       vsItems, extents, shares, zfsSnaps>>

\* the configured pool_warning_threshold and pool_critical_threshold
\* (cli.py lines 561-562, defaults 80 and 90)
ThresholdConfigs == {<<80, 90>>, <<70, 85>>}

\* cli.py lines 557-567: the line printed for one pool
StorageCheckLine(pool, warning, critical) ==
    LET usage_pct == Utilization(pool.used, pool.total)
    IN  [pool |-> pool.name,
         usage_pct |-> usage_pct,
         flag |-> IF AtLeast(usage_pct, critical) THEN "CRITICAL"
                  ELSE IF AtLeast(usage_pct, warning) THEN "WARNING"
                  ELSE "none"]

\* the storage check of `monitor --once` (cli.py lines 549-573)
CallCliStorageCheck ==
    \E th \in ThresholdConfigs :
        LET usage == CheckStorageUsage(monitor, pools, failing)
        IN  /\ ret' = [op |-> "run_checks", args |-> th,
                       out |-> Ok(MapSeq(LAMBDA pl : StorageCheckLine(pl, th[1], th[2]),
                                         usage.pools))]
            /\ gauges' = UpdateStorageMetrics(gauges, usage)
            /\ UNCHANGED <<pods, frame, pools, config, monitor, now, failing, pvItems, pvcItems,
                           tzAware, vsItems, extents, shares, zfsSnaps>>

NextPool ==
    \/ BackendCreatePool
    \/ BackendOutagePools
    \/ CallCheckStorageUsage
    \/ CallAnalyzeStorageEfficiency
    \/ CallCliStorageCheck

SpecPool == InitIdle /\ [][NextPool]_vars

----------------------------------------------------------------------------
(* Claims about the storage pools *)

\* analyze_storage_efficiency returned after it obtained the pools
AnalyzedPools ==
    /\ ret.op = "analyze_storage_efficiency"
    /\ "pool" \notin failing

\* the float x is n / d * 100
IsPercentOf(x, n, d) == x.num * d = n * 100 * x.den

\* C12: for every pool with total size > 0 the utilization_percent of
\* analyze_storage_efficiency is used / total x 100, exactly 50.0 when used is
\* half of total; for a pool of total size 0 it is 0 and the analysis is not
\* aborted; the storage_pool_utilization_percent gauge of the same pool, once
\* update_storage_metrics has set it, carries the same value.
C12_UtilizationPercent ==
    AnalyzedPools =>
        LET entries == ret.out.value.pool_efficiency
        IN  /\ Len(entries) = Len(pools)
            /\ \A i \in 1..Len(pools) :
                   /\ entries[i].name = pools[i].name
                   /\ pools[i].size > 0 =>
                          IsPercentOf(entries[i].utilization_percent,
                                      pools[i].allocated, pools[i].size)
                   /\ (pools[i].size > 0 /\ 2 * pools[i].allocated = pools[i].size) =>
                          entries[i].utilization_percent = [num |-> 50, den |-> 1]
                   /\ pools[i].size = 0 =>
                          entries[i].utilization_percent = [num |-> 0, den |-> 1]
                   /\ \A sample \in gauges :
                          (/\ sample.metric = "storage_pool_utilization_percent"
                           /\ sample.labels = <<pools[i].name>>) =>
                              sample.value = entries[i].utilization_percent

\* a half-full pool and a pool of size 0 were analysed after the gauge of
\* both was set
C12_Witness ==
    /\ AnalyzedPools
    /\ Len(pools) = 2
    /\ pools[1].size = 0
    /\ pools[2].size = 10 * GiB /\ pools[2].allocated = 5 * GiB
    /\ Cardinality({sm \in gauges : sm.metric = "storage_pool_utilization_percent"}) = 2
    /\ Len(ret.out.value.pool_efficiency) = 2
    /\ ret.out.value.pool_efficiency[2].utilization_percent = [num |-> 50, den |-> 1]

\* the report carries an alert of the given level for the pool
HasPoolAlert(report, name, level) ==
    /\ "alerts" \in DOMAIN report
    /\ \E j \in 1..Len(report.alerts) :
           report.alerts[j].level = level /\ report.alerts[j].pool = name

\* the alerts of a report are those the thresholds ask for
AlertsFollowThresholds(report, warning, critical) ==
    \A i \in 1..Len(pools) :
        LET u == Utilization(pools[i].allocated, pools[i].size)
        IN  /\ HasPoolAlert(report, pools[i].name, "error") <=> Exceeds(u, critical)
            /\ HasPoolAlert(report, pools[i].name, "warning")
                   <=> (Exceeds(u, warning) /\ ~Exceeds(u, critical))

\* the flags printed by the storage check, read as alert levels
PrintedAlerts(lines) ==
    [alerts |-> MapSeq(LAMBDA ln : [pool |-> ln.pool,
                                     level |-> IF ln.flag = "CRITICAL" THEN "error"
                                               ELSE IF ln.flag = "WARNING" THEN "warning"
                                               ELSE "none"],
                       lines)]

\* C13: utilization above the configured critical threshold yields an alert
\* of level error, utilization above the configured warning threshold but not
\* above the critical one yields an alert of level warning, utilization not
\* above the warning threshold yields neither; the thresholds are the
\* configured ones (80 and 90 unless configured otherwise).
C13_ConfiguredThresholdAlerts ==
    /\ AnalyzedPools => AlertsFollowThresholds(ret.out.value, 80, 90)
    /\ (ret.op = "run_checks" /\ "pool" \notin failing) =>
           AlertsFollowThresholds(PrintedAlerts(ret.out.value), ret.args[1], ret.args[2])

----------------------------------------------------------------------------
(* Operations on the efficiency analysis *)

\* the backend reports one more pool, empty or half full
BackendCreateSmallPool ==
    /\ ret = NoCall
    /\ Len(pools) < MaxPools
    /\ \E data \in PoolObjects(Len(pools) + 1) :
           /\ data.size <= 10 * GiB
           /\ pools' = Append(pools, data)
    /\ UNCHANGED <<pods, frame, gauges, config, monitor, now, failing, pvItems, pvcItems, tzAware,
                   vsItems, extents, shares, zfsSnaps, ret>>

\* the driver provisions one more volume of some requested capacity
ApiProvisionCapacity ==
    /\ ret = NoCall
    /\ Len(pvItems) < MaxPVs
    /\ \E capacity \in Capacities :
           pvItems' = Append(pvItems,
                             [ProvisionedVolume(PVName(Len(pvItems) + 1))
                                 EXCEPT !.capacity = capacity])
    /\ UNCHANGED <<pods, frame, pools, gauges, config, monitor, now, failing, pvcItems, tzAware,
                   vsItems, extents, shares, zfsSnaps, ret>>

\* the backend holds one snapshot that uses 2 GiB
BackendSnapshotLarge ==
    /\ ret = NoCall
    /\ zfsSnaps = <<>>
    /\ \E data \in BackendSnapshotObjects(now) :
           /\ data.snapshot_name = "matched-snap"
           /\ data.dataset = <<"tank", "k8s", "volumes", "pvc-active">>
           /\ data.creation = now - DefaultAgeThresholdDays * MinutesPerDay
           /\ zfsSnaps' = <<[data EXCEPT !.used = 2 * GiB]>>
    /\ UNCHANGED <<pods, frame, pools, gauges, config, monitor, now, failing, pvItems, pvcItems, tzAware,
                   vsItems, extents, shares, ret>>

NextEff ==
    \/ BackendCreateSmallPool
    \/ BackendOutagePools
    \/ ApiProvisionCapacity
    \/ ApiOutagePV
    \/ BackendSnapshotLarge
    \/ K8sClientInitFails
    \/ CallAnalyzeStorageEfficiency

SpecEff == InitIdle /\ [][NextEff]_vars

----------------------------------------------------------------------------
(* Claims about the efficiency analysis *)

\* analyze_storage_efficiency returned after both clients answered
AnalyzedVolumes ==
    /\ ret.op = "analyze_storage_efficiency"
    /\ failing = {}
    /\ monitor.k8s_client

\* the bytes a capacity string stands for: the number times its binary or
\* decimal unit, and zero for a string that is no number with a unit
RequestedBytes(capacity) ==
    CASE capacity = "10Gi" -> 10 * GiB
      [] capacity = "5Gi" -> 5 * GiB
      [] capacity = "1Ti" -> 1024 * GiB
      [] capacity = "512Mi" -> 512
      [] OTHER -> 0

RequestedSum == SumSeq(MapSeq(LAMBDA pv : RequestedBytes(pv.capacity), pvItems))

UsedSum == SumSeq(MapSeq(LAMBDA pl : pl.allocated, pools))

OverCommitment ==
    <<"High thin provisioning ratio detected - monitor for potential overcommitment">>

Recommends(report, text) ==
    \E j \in 1..Len(report.recommendations) : report.recommendations[j] = text

\* the ratio is requested / used, and the recommendation follows it
RatioAndRecommendation(report) ==
    LET ratio == report.overall_efficiency.thin_provisioning_ratio
    IN  /\ ratio = IF UsedSum > 0 THEN Ratio(RequestedSum, UsedSum) ELSE Float(0)
        /\ Recommends(report, OverCommitment) <=> (UsedSum > 0 /\ RequestedSum > 2 * UsedSum)
        /\ "alerts" \notin DOMAIN report

\* C14: thin_provisioning_ratio is the sum of the requested capacity, in
\* bytes, of all volumes divided by the sum of the used bytes of the pools,
\* and 0.0 when the used sum is 0; the over-commitment recommendation, and no
\* alert, is added if and only if the ratio is strictly greater than 2.0.
C14_ThinProvisioningRatio ==
    AnalyzedVolumes => RatioAndRecommendation(ret.out.value)

\* every capacity is a whole number of Gi
OnlyGiCapacities ==
    \A i \in 1..Len(pvItems) : pvItems[i].capacity \in {"10Gi", "5Gi"}

\* what the analysis guarantees: for volumes whose capacities are whole
\* numbers of Gi the ratio and the recommendation are as stated
C14_RatioOfGiCapacities ==
    (AnalyzedVolumes /\ OnlyGiCapacities) => RatioAndRecommendation(ret.out.value)

\* C15: every capacity with a unit suffix adds its bytes to the requested
\* sum and an empty or unparsable capacity adds zero, without raising: the
\* ratio is that of the normalized sum, and the snapshot overhead and the
\* recommendations that follow the sum in the analysis are still computed.
C15_CapacityNormalization ==
    AnalyzedVolumes =>
        LET figures == ret.out.value.overall_efficiency
            size == SumSeq(MapSeq(LAMBDA sn : sn.used, zfsSnaps))
        IN  UsedSum > 0 =>
               /\ figures.thin_provisioning_ratio = Ratio(RequestedSum, UsedSum)
               /\ figures.snapshot_overhead_percent = Times(Ratio(size, UsedSum), 100)
               /\ Exceeds(figures.snapshot_overhead_percent, 20) =>
                      Len(ret.out.value.recommendations) > 0

----------------------------------------------------------------------------
(* Operations on the snapshot usage analysis *)

\* ages of 12 hours, 1 day, 36 hours, 7 days, 30 days and 60 days, in minutes
UsageAges == {720, 1440, 2160, 10080, 43200, 86400}

\* 500 MB, 2 GB and 10 GB
UsageSizes == {500, 2 * GiB, 10 * GiB}

\* the backend holds one more snapshot of volume pvc-active
BackendSnapshotAged ==
    /\ ret = NoCall
    /\ Len(zfsSnaps) < MaxBackendSnapshots
    /\ \E age \in UsageAges, used \in UsageSizes :
           LET d == <<"tank", "k8s", "volumes", "pvc-active">>
               n == SnapshotName(Len(zfsSnaps) + 1)
           IN  zfsSnaps' = Append(zfsSnaps,
                                  [snapshot_name |-> n, dataset |-> d, id |-> FullName(d, n),
                                   creation |-> now - age, used |-> used,
                                   referenced |-> 2 * used])
    /\ UNCHANGED <<pods, frame, pools, gauges, config, monitor, now, failing, pvItems, pvcItems, tzAware,
                   vsItems, extents, shares, ret>>

CallAnalyzeSnapshotUsage ==
    /\ ret' = [op |-> "analyze_snapshot_usage", args |-> <<None>>,
               out |-> Ok(AnalyzeSnapshotUsage(zfsSnaps, failing, now))]
    /\ UNCHANGED <<pods, frame, pools, gauges, config, monitor, now, failing, pvItems, pvcItems, tzAware,
                   vsItems, extents, shares, zfsSnaps>>

NextUsage ==
    \/ BackendSnapshotAged
    \/ BackendOutageSnapshots
    \/ CallAnalyzeSnapshotUsage

SpecUsage == InitIdle /\ [][NextUsage]_vars

----------------------------------------------------------------------------
(* Claims about the snapshot usage analysis *)

\* analyze_snapshot_usage returned after it obtained the snapshots
AnalyzedSnapshots ==
    /\ ret.op = "analyze_snapshot_usage"
    /\ failing = {}

\* the age of backend snapshot i at the call, in minutes
AgeOf(i) == now - zfsSnaps[i].creation

\* the number of snapshots whose age is at least lo and less than hi days
AgedBetween(lo, hi) ==
    Cardinality({i \in 1..Len(zfsSnaps) :
                    AgeOf(i) >= lo * MinutesPerDay /\ AgeOf(i) < hi * MinutesPerDay})

\* C16: every analysed snapshot is in exactly one of the buckets last_24h
\* (age < 1 day), last_week (1 day <= age < 7 days), last_month (7 days <=
\* age < 30 days) and older (age >= 30 days); the four counts sum to
\* total_snapshots.
C16_AgeBucketsPartition ==
    AnalyzedSnapshots =>
        LET counts == ret.out.value.snapshots_by_age
        IN  /\ ret.out.value.total_snapshots = Len(zfsSnaps)
            /\ counts.last_24h = AgedBetween(0, 1)
            /\ counts.last_week = AgedBetween(1, 7)
            /\ counts.last_month = AgedBetween(7, 30)
            /\ counts.older = Len(zfsSnaps) - AgedBetween(0, 30)
            /\ counts.last_24h + counts.last_week + counts.last_month + counts.older
                   = ret.out.value.total_snapshots

\* a snapshot aged exactly 1 day and one aged exactly 30 days were counted
C16_Witness ==
    /\ AnalyzedSnapshots
    /\ Len(zfsSnaps) = 2
    /\ AgeOf(1) = MinutesPerDay /\ AgeOf(2) = 30 * MinutesPerDay
    /\ ret.out.value.snapshots_by_age.last_week = 1
    /\ ret.out.value.snapshots_by_age.older = 1

\* C17: average_snapshot_age_days is the arithmetic mean of the exact ages
\* of the snapshots in days, no age being rounded or truncated: 1.5 for one
\* snapshot aged 36 hours, 1.0 for two aged 12 and 36 hours.
C17_AverageOfExactAges ==
    (AnalyzedSnapshots /\ zfsSnaps # <<>>) =>
        ret.out.value.average_snapshot_age_days
            = Ratio(SumSeq([i \in 1..Len(zfsSnaps) |-> AgeOf(i)]),
                    Len(zfsSnaps) * MinutesPerDay)

----------------------------------------------------------------------------
(* Snapshot health *)

\* K8sClient.find_stale_snapshots: line 718 compares every creation time
\* with the naive datetime of line 712, so a snapshot without creation time
\* or with an aware one raises TypeError; only ApiException is caught
FindStaleSnapshots(days, items, fail, aware, t) ==
    LET snaps == GetVolumeSnapshots(items, fail)
    IN  IF snaps.status = "raised"
        THEN Ok(<<>>)
        ELSE IF \E i \in 1..Len(snaps.value) :
                    snaps.value[i].creation_time = None \/ aware
             THEN Raised("TypeError")
             ELSE Ok(SelectSeq(snaps.value,
                               LAMBDA sn : sn.creation_time[1] < t - days * MinutesPerDay))

\* the report before anything is counted (lines 210-233); the analysis is
\* None while it is the empty dict
EmptyHealth ==
    [k8s_snapshots |-> [total |-> 0, ready |-> 0, pending |-> 0, error |-> 0, stale |-> 0],
     truenas_snapshots |-> [total |-> 0, recent |-> 0, old |-> 0, large |-> 0,
                            total_size_gb |-> Float(0)],
     orphaned_resources |-> [k8s_without_truenas |-> 0, truenas_without_k8s |-> 0,
                             total_orphaned |-> 0],
     analysis |-> None,
     recommendations |-> <<>>,
     alerts |-> <<>>]

\* the alert of lines 297-301
SystemAlert(exc) ==
    [level |-> "error", category |-> "system",
     message |-> <<"Failed to check snapshot health:", exc>>]

\* the alerts of lines 272-291
HealthAlerts(orphaned, size_gb, pending, ready) ==
    (IF orphaned > 5
     THEN <<[level |-> "warning", category |-> "cleanup",
             message |-> <<"Found", orphaned, "orphaned snapshots that may need cleanup">>]>>
     ELSE <<>>)
    \o (IF Exceeds(size_gb, 100)
        THEN <<[level |-> "warning", category |-> "storage",
                message |-> <<"Snapshot storage usage is", size_gb,
                              "GB - consider retention policy review">>]>>
        ELSE <<>>)
    \o (IF pending * 10 > ready
        THEN <<[level |-> "error", category |-> "health",
                message |-> <<pending, "snapshots are stuck in pending state">>]>>
        ELSE <<>>)

\* lines 241-248: the counts of the listed VolumeSnapshots
WithK8sCounts(report, snaps) ==
    [report EXCEPT !.k8s_snapshots.total = Len(snaps),
                   !.k8s_snapshots.ready = CountSeq(snaps, LAMBDA sn : sn.ready_to_use),
                   !.k8s_snapshots.pending = CountSeq(snaps, LAMBDA sn : ~sn.ready_to_use)]

\* lines 256-263: the figures taken from the analysis of the backend
WithBackendFigures(report, analysis) ==
    [report EXCEPT !.truenas_snapshots =
                       [total |-> analysis.total_snapshots,
                        recent |-> analysis.snapshots_by_age.last_24h,
                        old |-> analysis.snapshots_by_age.older,
                        large |-> Len(analysis.large_snapshots),
                        total_size_gb |-> Ratio(analysis.total_snapshot_size, GiB)],
                   !.analysis = Some(analysis),
                   !.recommendations = analysis.recommendations]

\* lines 269-271
WithOrphans(report, k8sOrphans, backendOrphans) ==
    [report EXCEPT !.orphaned_resources =
                       [k8s_without_truenas |-> Len(k8sOrphans),
                        truenas_without_k8s |-> Len(backendOrphans),
                        total_orphaned |-> Len(k8sOrphans) + Len(backendOrphans)]]

\* the except clause of lines 295-301: the report as far as it got, with
\* the alert of the failure
Failed(report, exc) ==
    [report EXCEPT !.alerts = Append(report.alerts, SystemAlert(exc))]

\* Monitor.check_snapshot_health up to its update of the metrics: the report
\* it returns.  The whole body after line 237 is one try block.
CheckSnapshotHealth(mon, items, records, fail, aware, t) ==
    IF ~mon.k8s_client THEN EmptyHealth
    ELSE
    LET listed == GetVolumeSnapshots(items, fail)
    IN  IF listed.status = "raised" THEN Failed(EmptyHealth, listed.exc)
        ELSE
        LET counted == WithK8sCounts(EmptyHealth, listed.value)
            stale == FindStaleSnapshots(30, items, fail, aware, t)
        IN  IF stale.status = "raised" THEN Failed(counted, stale.exc)
            ELSE
            LET aged == [counted EXCEPT !.k8s_snapshots.stale = Len(stale.value)]
            IN  IF ~mon.truenas_client THEN aged
                ELSE
                LET analysed == WithBackendFigures(aged, AnalyzeSnapshotUsage(records, fail, t))
                    k8sOrphans == FindOrphanedSnapshots(None, DefaultAgeThresholdMinutes,
                                                        items, fail, aware, t)
                IN  IF k8sOrphans.status = "raised" THEN Failed(analysed, k8sOrphans.exc)
                    ELSE
                    LET backendOrphans ==
                            FindOrphanedTruenasSnapshots(Some(listed.value),
                                                         DefaultAgeThresholdDays,
                                                         records, fail, t)
                        found == WithOrphans(analysed, k8sOrphans.value, backendOrphans.value)
                    IN  [found EXCEPT !.alerts =
                             HealthAlerts(found.orphaned_resources.total_orphaned,
                                          found.truenas_snapshots.total_size_gb,
                                          found.k8s_snapshots.pending,
                                          found.k8s_snapshots.ready)]

\* the days set for an age category (lines 215-221 of metrics.py)
CategoryDays(category) ==
    CASE category = "last_24h" -> 1
      [] category = "last_week" -> 7
      [] category = "older" -> 30
      [] OTHER -> 0

\* TrueNASMetrics.update_snapshot_metrics: the samples after the update
UpdateSnapshotMetrics(samples, report) ==
    LET totals == SetGauge(SetGauge(samples,
                      "snapshots_total", <<"kubernetes", "", "">>,
                      Float(report.k8s_snapshots.total)),
                      "snapshots_total", <<"truenas", "", "">>,
                      Float(report.truenas_snapshots.total))
        sized == SetGauge(totals, "snapshots_size_bytes", <<"truenas", "", "">>,
                          Times(report.truenas_snapshots.total_size_gb, GiB))
        orphaned == SetGauge(SetGauge(sized,
                        "orphaned_snapshots_total", <<"kubernetes", "k8s_without_truenas">>,
                        Float(report.orphaned_resources.k8s_without_truenas)),
                        "orphaned_snapshots_total", <<"truenas", "truenas_without_k8s">>,
                        Float(report.orphaned_resources.truenas_without_k8s))
        categories == IF report.analysis = None THEN {}
                      ELSE {"last_24h", "last_week", "last_month", "older"}
    IN  {sm \in orphaned : ~(/\ sm.metric = "snapshots_age_days"
                             /\ \E c \in categories : sm.labels = <<"truenas", "", "", c>>)}
        \cup {[metric |-> "snapshots_age_days", labels |-> <<"truenas", "", "", c>>,
               value |-> Float(CategoryDays(c))] : c \in categories}

\* alert.get('level', 'unknown') and alert.get('category', 'unknown')
AlertKey(alert) ==
    <<IF "level" \in DOMAIN alert THEN alert.level ELSE "unknown",
      IF "category" \in DOMAIN alert THEN alert.category ELSE "unknown">>

\* lines 393-399: the number of alerts of every key of the list
AlertCounts(alerts) ==
    [key \in {AlertKey(alerts[i]) : i \in 1..Len(alerts)} |->
        CountSeq(alerts, LAMBDA a : AlertKey(a) = key)]

\* variant of clear() that leaves the samples where they are
ClearAlerts_Keep(samples) ==
    samples

\* active_alerts_total.clear(): every sample of the gauge is removed
ClearAlerts(samples) ==
    {sm \in samples : sm.metric # "active_alerts_total"}

\* TrueNASMetrics.update_alert_metrics: the old samples of the alerts are
\* cleared and the alerts counted by level and category
UpdateAlertMetrics(samples, alerts) ==
    LET counts == AlertCounts(alerts)
    IN  {sm \in ClearAlerts(samples) :
            ~(sm.metric = "active_alerts_total" /\ sm.labels \in DOMAIN counts)}
        \cup {[metric |-> "active_alerts_total", labels |-> key,
               value |-> Float(counts[key])] : key \in DOMAIN counts}

----------------------------------------------------------------------------
(* Operations on the snapshot health *)

\* a user keeps one more VolumeSnapshot of claim pvc-active
ApiSnapshotKept ==
    /\ ret = NoCall
    /\ Len(vsItems) < MaxVolumeSnapshots
    /\ \E ready \in BOOLEAN, created \in {None, Some(now - 1440), Some(now - 44640)} :
           vsItems' = Append(vsItems,
                             [name |-> SnapshotName(Len(vsItems) + 1),
                              namespace |-> "default",
                              source_pvc |-> Some("pvc-active"),
                              snapshot_class |-> Some("democratic-csi"),
                              ready_to_use |-> ready,
                              creation_timestamp |-> created])
    /\ UNCHANGED <<pods, frame, pools, gauges, config, monitor, now, failing, pvItems, pvcItems, tzAware,
                   extents, shares, zfsSnaps, ret>>

\* the backend keeps one more snapshot of the volume of claim pvc-active
BackendSnapshotKept ==
    /\ ret = NoCall
    /\ Len(zfsSnaps) < MaxBackendSnapshots
    /\ \E age \in {720, 86400}, used \in {500, 2 * GiB} :
           LET d == <<"tank", "k8s", "volumes", "pvc-active">>
               n == SnapshotName(Len(zfsSnaps) + 1)
           IN  zfsSnaps' = Append(zfsSnaps,
                                  [snapshot_name |-> n, dataset |-> d, id |-> FullName(d, n),
                                   creation |-> now - age, used |-> used,
                                   referenced |-> 2 * used])
    /\ UNCHANGED <<pods, frame, pools, gauges, config, monitor, now, failing, pvItems, pvcItems, tzAware,
                   vsItems, extents, shares, ret>>

\* Monitor.check_snapshot_health with its update of the metrics (lines
\* 304-309), which the return of line 237 skips
CallCheckSnapshotHealth ==
    LET report == CheckSnapshotHealth(monitor, vsItems, zfsSnaps, failing, tzAware, now)
    IN  /\ ret' = [op |-> "check_snapshot_health", args |-> <<>>, out |-> Ok(report)]
        /\ gauges' = IF monitor.k8s_client
                      THEN UpdateAlertMetrics(UpdateSnapshotMetrics(gauges, report),
                                              report.alerts)
                      ELSE gauges
        /\ UNCHANGED <<pods, frame, pools, config, monitor, now, failing, pvItems, pvcItems, tzAware,
                       vsItems, extents, shares, zfsSnaps>>

NextHealth ==
    \/ ApiSnapshotKept
    \/ BackendSnapshotKept
    \/ NaiveTimestamps
    \/ ApiOutageSnapshots
    \/ BackendOutageSnapshots
    \/ K8sClientInitFails
    \/ CallCheckSnapshotHealth

SpecHealth == InitIdle /\ [][NextHealth]_vars

CheckedHealth == ret.op = "check_snapshot_health"

\* the backend answers the listing of its snapshots
BackendReachable == monitor.truenas_client /\ "zfs/snapshot" \notin failing

\* the control plane answers the listing of the VolumeSnapshots
ControlPlaneReachable == monitor.k8s_client /\ "list_volume_snapshots" \notin failing

\* C18: each side of check_snapshot_health is guarded on its own: when the
\* Kubernetes client is unavailable or one of its listings fails while the
\* backend is reachable, the report still carries the backend figures (total,
\* total size, recent, old and large counts) computed from the snapshots of the
\* backend; when the backend fails while the control plane is reachable, the
\* report still carries the counts of the VolumeSnapshots (total, ready,
\* pending).
C18_SidesGuardedIndependently ==
    CheckedHealth =>
        LET report == ret.out.value
            byAge(lo, hi) == Cardinality({i \in 1..Len(zfsSnaps) :
                                 /\ lo <= now - zfsSnaps[i].creation
                                 /\ now - zfsSnaps[i].creation < hi})
        IN  /\ (BackendReachable /\ ~ControlPlaneReachable) =>
                   /\ report.truenas_snapshots.total = Len(zfsSnaps)
                   /\ report.truenas_snapshots.total_size_gb
                          = Ratio(SumSeq([i \in 1..Len(zfsSnaps) |-> zfsSnaps[i].used]), GiB)
                   /\ report.truenas_snapshots.recent = byAge(0, MinutesPerDay)
                   /\ report.truenas_snapshots.old
                          = Len(zfsSnaps) - byAge(0, 30 * MinutesPerDay)
                   /\ report.truenas_snapshots.large
                          = Cardinality({i \in 1..Len(zfsSnaps) : zfsSnaps[i].used > GiB})
            /\ (ControlPlaneReachable /\ ~BackendReachable) =>
                   /\ report.k8s_snapshots.total = Len(vsItems)
                   /\ report.k8s_snapshots.ready
                          = Cardinality({i \in 1..Len(vsItems) : vsItems[i].ready_to_use})
                   /\ report.k8s_snapshots.pending
                          = Cardinality({i \in 1..Len(vsItems) : ~vsItems[i].ready_to_use})

\* the half of C18 that the code keeps: a failing backend leaves the counts
\* of the VolumeSnapshots in the report
C18_ControlPlaneCountsKept ==
    (CheckedHealth /\ ControlPlaneReachable /\ ~BackendReachable) =>
        /\ ret.out.value.k8s_snapshots.total = Len(vsItems)
        /\ ret.out.value.k8s_snapshots.ready + ret.out.value.k8s_snapshots.pending
               = Len(vsItems)

----------------------------------------------------------------------------
(* The passes of the Monitor *)

\* the result before anything is counted (lines 81-85)
EmptyOrphanCounts == [orphaned_pvs |-> 0, orphaned_pvcs |-> 0, orphaned_snapshots |-> 0]

\* lines 105-116: the orphaned snapshots of both directions; the first
\* exception ends the count
OrphanedSnapshotCount(vsList, records, fail, aware, t) ==
    LET k8sSnapshots == GetVolumeSnapshots(vsList, fail)
        truenasSnapshots == GetSnapshots(records, fail)
    IN  IF k8sSnapshots.status = "raised" THEN k8sSnapshots
        ELSE IF truenasSnapshots.status = "raised" THEN truenasSnapshots
        ELSE LET k8sOrphans == FindOrphanedSnapshots(Some(truenasSnapshots.value),
                                                     DefaultAgeThresholdMinutes,
                                                     vsList, fail, aware, t)
                 backendOrphans == FindOrphanedTruenasSnapshots(Some(k8sSnapshots.value),
                                                                DefaultAgeThresholdDays,
                                                                records, fail, t)
             IN  IF k8sOrphans.status = "raised" THEN k8sOrphans
                 ELSE Ok(Len(k8sOrphans.value) + Len(backendOrphans.value))

\* Monitor.check_orphaned_resources up to its update of the metrics; the
\* handler of line 120 only logs, so the result is returned as far as it got
CheckOrphanedResources(mon, pvList, pvcList, vsList, records, cfg, fail, aware, t) ==
    IF ~mon.k8s_client THEN EmptyOrphanCounts
    ELSE
    LET pvOrphans == FindOrphanedPvs({}, pvList, cfg, fail, t)
    IN  IF pvOrphans.status = "raised" THEN EmptyOrphanCounts
        ELSE
        LET withPvs == [EmptyOrphanCounts EXCEPT !.orphaned_pvs = Len(pvOrphans.value)]
            pvcOrphans == FindOrphanedPvcs(DefaultPendingThresholdMinutes, pvcList, cfg,
                                           fail, aware, t)
        IN  IF pvcOrphans.status = "raised" THEN withPvs
            ELSE
            LET withPvcs == [withPvs EXCEPT !.orphaned_pvcs = Len(pvcOrphans.value)]
                snapshots == OrphanedSnapshotCount(vsList, records, fail, aware, t)
            IN  IF ~mon.truenas_client \/ snapshots.status = "raised" THEN withPvcs
                ELSE [withPvcs EXCEPT !.orphaned_snapshots = snapshots.value]

\* TrueNASMetrics.update_volume_metrics: the samples after the update
UpdateVolumeMetrics(samples, counts) ==
    SetGauge(SetGauge(samples,
        "orphaned_pvs_total", <<"">>, Float(counts.orphaned_pvs)),
        "orphaned_pvcs_total", <<"">>, Float(counts.orphaned_pvcs))

----------------------------------------------------------------------------
(* Operations on the passes of the Monitor *)

\* the driver provisions one more volume, bound to its claim or left
\* Available
ApiVolumeInPhase ==
    /\ ret = NoCall
    /\ Len(pvItems) < MaxPVs
    /\ \E phase \in {"Bound", "Available"} :
           pvItems' = Append(pvItems,
                             [ProvisionedVolume(PVName(Len(pvItems) + 1))
                                 EXCEPT !.phase = phase])
    /\ UNCHANGED <<pods, frame, pools, gauges, config, monitor, now, failing, pvcItems, tzAware,
                   vsItems, extents, shares, zfsSnaps, ret>>

\* a user files one more claim that stays Pending, two hours ago or at a time
\* the API does not tell
ApiClaimPending ==
    /\ ret = NoCall
    /\ Len(pvcItems) < MaxPVCs
    /\ \E pvc \in PVCObjects(Len(pvcItems) + 1, now) :
           /\ pvc.phase = "Pending"
           /\ pvc.creation_timestamp \in {None, Some(now - 120)}
           /\ pvcItems' = Append(pvcItems, pvc)
    /\ UNCHANGED <<pods, frame, pools, gauges, config, monitor, now, failing, pvItems, tzAware,
                   vsItems, extents, shares, zfsSnaps, ret>>

\* Monitor.check_orphaned_resources with its update of the metrics (lines
\* 90 and 124)
CallCheckOrphanedResources ==
    LET counts == CheckOrphanedResources(monitor, pvItems, pvcItems, vsItems, zfsSnaps,
                                         config, failing, tzAware, now)
    IN  /\ ret' = [op |-> "check_orphaned_resources", args |-> <<>>, out |-> Ok(counts)]
        /\ gauges' = UpdateVolumeMetrics(gauges, counts)
        /\ UNCHANGED <<pods, frame, pools, config, monitor, now, failing, pvItems, pvcItems, tzAware,
                       vsItems, extents, shares, zfsSnaps>>

NextPass ==
    \/ ApiVolumeInPhase
    \/ ApiClaimPending
    \/ BackendCreateSmallPool
    \/ NaiveTimestamps
    \/ ApiOutagePV
    \/ ApiOutagePVC
    \/ ApiOutageSnapshots
    \/ BackendOutageSnapshots
    \/ BackendOutagePools
    \/ K8sClientInitFails
    \/ CallCheckOrphanedResources
    \/ CallCheckStorageUsage
    \/ CallCheckSnapshotHealth
    \/ CallAnalyzeStorageEfficiency

SpecPass == InitIdle /\ [][NextPass]_vars

\* the listings a pass of the given check calls while both clients are there
ListingsOf(op) ==
    CASE op = "check_orphaned_resources" ->
             {"list_persistent_volume", "list_persistent_volume_claim",
              "list_volume_snapshots", "zfs/snapshot"}
      [] op = "check_storage_usage" -> {"pool"}
      [] op = "check_snapshot_health" -> {"list_volume_snapshots"}
      [] op = "analyze_storage_efficiency" -> {"pool", "list_persistent_volume"}
      [] OTHER -> {}

\* the last operation was a pass in which a listing of a collaborator failed
FailedPass ==
    /\ monitor.k8s_client /\ monitor.truenas_client
    /\ failing \cap ListingsOf(ret.op) # {}

\* the report of a pass of the given check that succeeds and finds nothing
FoundNothing(op) ==
    CASE op = "check_orphaned_resources" ->
             CheckOrphanedResources(MonitorClients, <<>>, <<>>, <<>>, <<>>, config, {},
                                    tzAware, now)
      [] op = "check_storage_usage" -> CheckStorageUsage(MonitorClients, <<>>, {})
      [] op = "check_snapshot_health" ->
             CheckSnapshotHealth(MonitorClients, <<>>, <<>>, {}, tzAware, now)
      [] op = "analyze_storage_efficiency" ->
             AnalyzeStorageEfficiency(MonitorClients, <<>>, <<>>, config, <<>>, {}, now)

\* the report has a field that records a failure: errors, error or an alert
\* of the category system
RecordsFailure(report) ==
    \/ "errors" \in DOMAIN report /\ report.errors # <<>>
    \/ "error" \in DOMAIN report /\ report.error # None
    \/ /\ "alerts" \in DOMAIN report
       /\ \E i \in 1..Len(report.alerts) : report.alerts[i].category = "system"

\* the counts a failed pass had obtained before the failure are in its report
KeepsEarlierCounts ==
    /\ (ret.op = "check_orphaned_resources" /\ "list_persistent_volume" \notin failing) =>
           ret.out.value.orphaned_pvs
               = Len(FindOrphanedPvs({}, pvItems, config, failing, now).value)
    /\ (ret.op = "analyze_storage_efficiency" /\ "pool" \notin failing) =>
           Len(ret.out.value.pool_efficiency) = Len(pools)

\* C19: a failure of a collaborator never aborts a pass and is always visible
\* in its report: whichever listing fails in whichever check of the Monitor,
\* the check returns its report, the report keeps the counts obtained before
\* the failure, and it holds a record of the failure, so that it differs from
\* the report of a pass that succeeded and found nothing.
C19_FailureVisibleInReport ==
    FailedPass =>
        /\ ret.out.status = "ok"
        /\ KeepsEarlierCounts
        /\ RecordsFailure(ret.out.value)
        /\ ret.out.value # FoundNothing(ret.op)

\* the part of C19 that the code keeps: a failed pass returns its report with
\* the counts obtained before the failure
C19_FailedPassReturnsReport ==
    FailedPass => (ret.out.status = "ok" /\ KeepsEarlierCounts)

\* check_snapshot_health is the one check whose report records the failure
C19_SnapshotHealthRecordsFailure ==
    (FailedPass /\ ret.op = "check_snapshot_health") => RecordsFailure(ret.out.value)

----------------------------------------------------------------------------
(* Operations on listings with malformed objects *)

\* the backend reports one more pool; the record may come without its name
BackendPoolListed ==
    /\ ret = NoCall
    /\ Len(pools) < MaxPools
    /\ \E named \in BOOLEAN :
           LET data == [name |-> PoolName(Len(pools) + 1), status |-> "ONLINE",
                        size |-> 10 * GiB, allocated |-> 5 * GiB, free |-> 5 * GiB,
                        fragmentation |-> "10%", healthy |-> TRUE]
           IN  pools' = Append(pools,
                               IF named THEN data
                               ELSE [f \in DOMAIN data \ {"name"} |-> data[f]])
    /\ UNCHANGED <<pods, frame, gauges, config, monitor, now, failing, pvItems, pvcItems, tzAware,
                   vsItems, extents, shares, zfsSnaps, ret>>

\* the backend reports one more snapshot; its creation value may be text
\* that is no integer
BackendSnapshotListed ==
    /\ ret = NoCall
    /\ Len(zfsSnaps) < MaxBackendSnapshots
    /\ \E dated \in BOOLEAN :
           LET d == <<"tank", "k8s", "volumes", "pvc-active">>
               n == SnapshotName(Len(zfsSnaps) + 1)
               data == [snapshot_name |-> n, dataset |-> d, id |-> FullName(d, n),
                        creation |-> now - MinutesPerDay, used |-> GiB,
                        referenced |-> 2 * GiB]
           IN  zfsSnaps' = Append(zfsSnaps,
                                  IF dated THEN data
                                  ELSE [f \in (DOMAIN data \ {"creation"})
                                              \cup {"creation_text"} |->
                                           IF f = "creation_text" THEN "yesterday"
                                           ELSE data[f]])
    /\ UNCHANGED <<pods, frame, pools, gauges, config, monitor, now, failing, pvItems, pvcItems, tzAware,
                   vsItems, extents, shares, ret>>

\* the API lists one more VolumeSnapshot taken 31 days ago; its metadata may
\* come without creationTimestamp
ApiSnapshotListed ==
    /\ ret = NoCall
    /\ Len(vsItems) < MaxVolumeSnapshots
    /\ \E created \in {None, Some(now - 31 * MinutesPerDay)} :
           vsItems' = Append(vsItems,
                             [name |-> SnapshotName(Len(vsItems) + 1),
                              namespace |-> "default",
                              source_pvc |-> Some("pvc-active"),
                              snapshot_class |-> Some("democratic-csi"),
                              ready_to_use |-> TRUE,
                              creation_timestamp |-> created])
    /\ UNCHANGED <<pods, frame, pools, gauges, config, monitor, now, failing, pvItems, pvcItems, tzAware,
                   extents, shares, zfsSnaps, ret>>

CallGetPools ==
    /\ ret' = [op |-> "get_pools", args |-> <<>>, out |-> GetPools(pools, failing)]
    /\ UNCHANGED <<pods, frame, pools, gauges, config, monitor, now, failing, pvItems, pvcItems, tzAware,
                   vsItems, extents, shares, zfsSnaps>>

CallGetSnapshots ==
    /\ ret' = [op |-> "get_snapshots", args |-> <<None>>,
               out |-> GetSnapshots(zfsSnaps, failing)]
    /\ UNCHANGED <<pods, frame, pools, gauges, config, monitor, now, failing, pvItems, pvcItems, tzAware,
                   vsItems, extents, shares, zfsSnaps>>

CallFindStaleSnapshots ==
    /\ ret' = [op |-> "find_stale_snapshots", args |-> <<30>>,
               out |-> FindStaleSnapshots(30, vsItems, failing, tzAware, now)]
    /\ UNCHANGED <<pods, frame, pools, gauges, config, monitor, now, failing, pvItems, pvcItems, tzAware,
                   vsItems, extents, shares, zfsSnaps>>

NextMalformed ==
    \/ BackendPoolListed
    \/ BackendSnapshotListed
    \/ ApiSnapshotListed
    \/ ApiClaimPending
    \/ NaiveTimestamps
    \/ CallGetPools
    \/ CallGetSnapshots
    \/ CallFindStaleSnapshots
    \/ CallFindOrphanedPvcs

SpecMalformed == InitIdle /\ [][NextMalformed]_vars

\* the well-formed objects of a list, in the order of the list
WellFormed(list, Test(_)) == SelectSeq(list, Test)

NamedPools == WellFormed(pools, LAMBDA data : "name" \in DOMAIN data)

DatedBackendSnapshots == WellFormed(zfsSnaps, HasIntegerCreation)

DatedVolumeSnapshots == WellFormed(vsItems, LAMBDA snap : snap.creation_timestamp # None)

DatedClaims == WellFormed(pvcItems, LAMBDA pvc : pvc.creation_timestamp # None)

\* C20: one malformed object never aborts the processing of its list: get_pools
\* skips a pool without name, get_snapshots a snapshot whose creation value is
\* no integer, find_stale_snapshots a VolumeSnapshot without creation time and
\* find_orphaned_pvcs a claim without creation time, and each returns the result
\* for every well-formed object of the same list.  (find_stale_snapshots is
\* taken with naive timestamps, the only ones it can compare.)
C20_MalformedObjectSkipped ==
    /\ ret.op = "get_pools" =>
           /\ ret.out.status = "ok"
           /\ ret.out.value = MapSeq(PoolInfo, NamedPools)
    /\ ret.op = "get_snapshots" =>
           /\ ret.out.status = "ok"
           /\ ret.out.value = MapSeq(SnapshotInfo, DatedBackendSnapshots)
    /\ (ret.op = "find_stale_snapshots" /\ ~tzAware) =>
           /\ ret.out.status = "ok"
           /\ ret.out.value
                  = SelectSeq(MapSeq(VolumeSnapshotInfo, DatedVolumeSnapshots),
                              LAMBDA sn : sn.creation_time[1] < now - 30 * MinutesPerDay)
    /\ ret.op = "find_orphaned_pvcs" =>
           /\ ret.out.status = "ok"
           /\ MapSeq(LAMBDA orphan : orphan.name, ret.out.value)
                  = MapSeq(LAMBDA pvc : pvc.name,
                           SelectSeq(DatedClaims,
                                     LAMBDA pvc : /\ pvc.phase = "Pending"
                                                  /\ pvc.creation_timestamp[1]
                                                         < now - ret.args[1]))

\* the listings and classifications are complete when every object of the
\* list is well-formed
C20_WellFormedListsProcessed ==
    /\ (ret.op = "get_pools" /\ NamedPools = pools) =>
           ret.out = Ok(MapSeq(PoolInfo, pools))
    /\ (ret.op = "get_snapshots" /\ DatedBackendSnapshots = zfsSnaps) =>
           ret.out = Ok(MapSeq(SnapshotInfo, zfsSnaps))
    /\ (ret.op = "find_stale_snapshots" /\ ~tzAware /\ DatedVolumeSnapshots = vsItems) =>
           /\ ret.out.status = "ok"
           /\ Len(ret.out.value) = Len(vsItems)
    /\ (ret.op = "find_orphaned_pvcs" /\ DatedClaims = pvcItems) =>
           ret.out.status = "ok"

----------------------------------------------------------------------------
(* Operations on the objects of other provisioners *)

\* the configuration names the storage class to monitor (monitor.py line 45)
ConfigureStorageClass ==
    /\ ret = NoCall
    /\ config.storage_class = None
    /\ config' = [config EXCEPT !.storage_class = Some("democratic-csi-nfs")]
    /\ UNCHANGED <<pods, frame, pools, gauges, monitor, now, failing, pvItems, pvcItems, tzAware,
                   vsItems, extents, shares, zfsSnaps, ret>>

\* the API lists one more Available volume: of the configured driver, of
\* another driver or without CSI source
ApiVolumeOfDriver ==
    /\ ret = NoCall
    /\ Len(pvItems) < MaxPVs
    /\ \E csi \in {Some([driver |-> DefaultCsiDriver, volume_handle |-> "handle"]),
                   Some([driver |-> "other.csi.driver", volume_handle |-> "handle"]),
                   None} :
           pvItems' = Append(pvItems,
                             [ProvisionedVolume(PVName(Len(pvItems) + 1))
                                 EXCEPT !.csi = csi, !.phase = "Available", !.claim_ref = None])
    /\ UNCHANGED <<pods, frame, pools, gauges, config, monitor, now, failing, pvcItems, tzAware,
                   vsItems, extents, shares, zfsSnaps, ret>>

\* the API lists one more claim Pending for two hours: of the storage class
\* of the driver, of another class or without class
ApiClaimOfClass ==
    /\ ret = NoCall
    /\ Len(pvcItems) < MaxPVCs
    /\ \E class \in {Some("democratic-csi-nfs"), Some("other-class"), None} :
           pvcItems' = Append(pvcItems,
                              [name |-> PVCName(Len(pvcItems) + 1),
                               namespace |-> "default",
                               storage_class |-> class,
                               volume_name |-> None,
                               capacity |-> "10Gi",
                               phase |-> "Pending",
                               creation_timestamp |-> Some(now - 120)])
    /\ UNCHANGED <<pods, frame, pools, gauges, config, monitor, now, failing, pvItems, tzAware,
                   vsItems, extents, shares, zfsSnaps, ret>>

\* the API lists one more VolumeSnapshot that has not become ready since
\* before the threshold: of the snapshot class of the driver or of another
ApiSnapshotOfClass ==
    /\ ret = NoCall
    /\ Len(vsItems) < MaxVolumeSnapshots
    /\ \E class \in {Some("democratic-csi"), Some("other-snapclass")} :
           vsItems' = Append(vsItems,
                             [name |-> SnapshotName(Len(vsItems) + 1),
                              namespace |-> "default",
                              source_pvc |-> Some("pvc-active"),
                              snapshot_class |-> class,
                              ready_to_use |-> FALSE,
                              creation_timestamp |->
                                  Some(now - DefaultAgeThresholdMinutes - 1)])
    /\ UNCHANGED <<pods, frame, pools, gauges, config, monitor, now, failing, pvItems, pvcItems, tzAware,
                   extents, shares, zfsSnaps, ret>>

NextForeign ==
    \/ ConfigureStorageClass
    \/ ApiVolumeOfDriver
    \/ ApiClaimOfClass
    \/ ApiSnapshotOfClass
    \/ NaiveTimestamps
    \/ CallFindOrphanedPvs
    \/ CallFindOrphanedPvcs
    \/ CallFindOrphanedSnapshots

SpecForeign == InitIdle /\ [][NextForeign]_vars

\* the objects of other provisioners among the listed ones
ForeignVolumes ==
    {pvItems[i].name : i \in {j \in 1..Len(pvItems) : ~OfConfiguredDriver(pvItems[j])}}

ForeignClaims ==
    {pvcItems[i].name :
        i \in {j \in 1..Len(pvcItems) : pvcItems[j].storage_class # Some("democratic-csi-nfs")}}

ForeignSnapshots ==
    {vsItems[i].name :
        i \in {j \in 1..Len(vsItems) : vsItems[j].snapshot_class # Some("democratic-csi")}}

\* the names of the entries of the orphan list the last call returned
ReportedNames == {ret.out.value[j].name : j \in 1..Len(ret.out.value)}

\* C21: objects of unrelated provisioners are never reported: a volume that is
\* not of the configured driver, a claim that is not of the monitored storage
\* class and a VolumeSnapshot that is not of the driver's snapshot class are in
\* no orphan list, whether or not a storage class is configured.
C21_ForeignObjectsNeverReported ==
    ret.out.status = "ok" =>
        /\ ret.op = "find_orphaned_pvs" => ReportedNames \cap ForeignVolumes = {}
        /\ ret.op = "find_orphaned_pvcs" => ReportedNames \cap ForeignClaims = {}
        /\ ret.op = "find_orphaned_snapshots" => ReportedNames \cap ForeignSnapshots = {}

\* the parts of C21 that the code keeps: the volumes of other drivers are
\* dropped, and so are the claims of other classes once a class is configured
C21_ForeignVolumesDropped ==
    (ret.op = "find_orphaned_pvs" /\ ret.out.status = "ok") =>
        ReportedNames \cap ForeignVolumes = {}

C21_ForeignClaimsDroppedWhenConfigured ==
    (ret.op = "find_orphaned_pvcs" /\ ret.out.status = "ok" /\ config.storage_class # None) =>
        ReportedNames \cap ForeignClaims = {}

----------------------------------------------------------------------------
(* Health of the CSI driver *)

PodName(i) ==
    IF i = 1 THEN "democratic-csi-controller-0"
    ELSE IF i = 2 THEN "democratic-csi-node-a" ELSE "democratic-csi-node-b"

\* the labels app and app.kubernetes.io/name of the pods: a pod of the driver
\* that both selectors match, one that a single selector matches, and a pod of
\* another application
PodLabels ==
    {[app |-> "democratic-csi", k8s_name |-> "democratic-csi"],
     [app |-> "democratic-csi", k8s_name |-> "csi"],
     [app |-> "postgres", k8s_name |-> "postgres"]}

\* the V1Pod objects the API can return in position i of the list;
\* container_statuses is the list of the ready flags, empty when it is None
PodObjects(i) ==
    [name : {PodName(i)},
     namespace : {"democratic-csi"},
     labels : PodLabels,
     phase : {"Running", "Pending"},
     container_statuses : {<<>>, <<TRUE>>, <<FALSE>>, <<TRUE, FALSE>>}]

\* the label selectors of lines 363-368, as the label and the value they ask
LabelSelectors(cfg) ==
    <<[label |-> "app", value |-> cfg.csi_driver],
      [label |-> "k8s_name", value |-> cfg.csi_driver],
      [label |-> "app", value |-> "democratic-csi"],
      [label |-> "k8s_name", value |-> "democratic-csi"]>>

\* list_pod_for_all_namespaces(label_selector=selector)
Selected(items, selector) ==
    SelectSeq(items, LAMBDA pod : pod.labels[selector.label] = selector.value)

\* lines 373-382: the pods of the selectors from position k on, each pod
\* taken once by its namespace/name key
RECURSIVE CollectPods(_, _, _, _)
CollectPods(items, selectors, k, collected) ==
    IF k > Len(selectors) THEN collected
    ELSE LET seen == {<<collected[i].namespace, collected[i].name>> :
                         i \in 1..Len(collected)}
             fresh == SelectSeq(Selected(items, selectors[k]),
                                LAMBDA pod : <<pod.namespace, pod.name>> \notin seen)
         IN  CollectPods(items, selectors, k + 1, collected \o fresh)

\* the dict of lines 385-400
PodInfo(pod) ==
    [name |-> pod.name,
     namespace |-> pod.namespace,
     status |-> pod.phase,
     ready |-> \A c \in 1..Len(pod.container_statuses) : pod.container_statuses[c],
     containers |-> pod.container_statuses]

\* K8sClient.get_csi_driver_pods; an ApiException of a selector's listing is
\* passed over (line 380), so a failing listing gives no pod
GetCsiDriverPods(items, cfg, fail) ==
    IF "list_pod" \in fail THEN <<>>
    ELSE MapSeq(PodInfo, CollectPods(items, LabelSelectors(cfg), 1, <<>>))

\* K8sClient.check_csi_driver_health; the dict of lines 421-427 has no key
\* pods, which is the empty list here
CheckCsiDriverHealth(items, cfg, fail) ==
    LET found == GetCsiDriverPods(items, cfg, fail)
        running_pods == CountSeq(found, LAMBDA pod : pod.status = "Running")
        ready_pods == CountSeq(found, LAMBDA pod : pod.ready)
        healthy == running_pods > 0 /\ running_pods = ready_pods
    IN  IF found = <<>>
        THEN [healthy |-> FALSE, reason |-> "No CSI driver pods found",
              total_pods |-> 0, running_pods |-> 0, ready_pods |-> 0, pods |-> <<>>]
        ELSE [healthy |-> healthy,
              reason |-> IF healthy THEN "All pods running and ready"
                         ELSE "Some pods not ready",
              total_pods |-> Len(found), running_pods |-> running_pods,
              ready_pods |-> ready_pods, pods |-> found]

----------------------------------------------------------------------------
(* Operations on the health of the CSI driver *)

\* the API lists one more pod
ApiSchedulePod ==
    /\ ret = NoCall
    /\ Len(pods) < MaxPods
    /\ \E pod \in PodObjects(Len(pods) + 1) : pods' = Append(pods, pod)
    /\ UNCHANGED <<frame, pools, gauges, config, monitor, now, failing, pvItems, pvcItems,
                   tzAware, vsItems, extents, shares, zfsSnaps, ret>>

\* the pod listing starts to fail (ApiException)
ApiOutagePods ==
    /\ ret = NoCall
    /\ failing = {}
    /\ failing' = {"list_pod"}
    /\ UNCHANGED <<pods, frame, pools, gauges, config, monitor, now, pvItems, pvcItems,
                   tzAware, vsItems, extents, shares, zfsSnaps, ret>>

CallCheckCsiDriverHealth ==
    /\ ret' = [op |-> "check_csi_driver_health", args |-> <<>>,
               out |-> Ok(CheckCsiDriverHealth(pods, config, failing))]
    /\ UNCHANGED <<pods, frame, pools, gauges, config, monitor, now, failing, pvItems,
                   pvcItems, tzAware, vsItems, extents, shares, zfsSnaps>>

NextCsi ==
    \/ ApiSchedulePod
    \/ ApiOutagePods
    \/ CallCheckCsiDriverHealth

SpecCsi == InitIdle /\ [][NextCsi]_vars

CheckedCsiDriver == ret.op = "check_csi_driver_health"

\* the listed pods that one of the label selectors matches
DriverPods ==
    {i \in 1..Len(pods) :
        \E k \in 1..Len(LabelSelectors(config)) :
            pods[i].labels[LabelSelectors(config)[k].label]
                = LabelSelectors(config)[k].value}

\* the pod is Running and every one of its containers is ready
RunningAndReady(pod) ==
    /\ pod.phase = "Running"
    /\ \A c \in 1..Len(pod.container_statuses) : pod.container_statuses[c]

\* C27: check_csi_driver_health returns healthy (reason 'All pods running and
\* ready') if and only if a driver pod was found and every found driver pod is
\* Running with all its containers ready; and a pod that several selectors
\* match counts once in total_pods.
C27_HealthyIffAllRunningAndReady ==
    (CheckedCsiDriver /\ failing = {}) =>
        LET health == ret.out.value
        IN  /\ health.healthy <=> (/\ DriverPods # {}
                                   /\ \A i \in DriverPods : RunningAndReady(pods[i]))
            /\ health.healthy <=> health.reason = "All pods running and ready"
            /\ health.total_pods = Cardinality(DriverPods)

\* the parts of C27 that the code keeps: every driver pod counts once, and
\* pods that are all Running and ready are reported healthy
C27_PodsCountedOnce ==
    (CheckedCsiDriver /\ failing = {}) =>
        ret.out.value.total_pods = Cardinality(DriverPods)

C27_AllRunningAndReadyIsHealthy ==
    (/\ CheckedCsiDriver /\ failing = {} /\ DriverPods # {}
     /\ \A i \in DriverPods : RunningAndReady(pods[i])) =>
        ret.out.value.healthy

----------------------------------------------------------------------------
(* The monitor command *)

\* the default of --interval, 300 seconds, in minutes
IntervalMinutes == 5

\* the result of Monitor.check_csi_health before the check (lines 176-181)
EmptyCsiHealth ==
    [healthy |-> FALSE, total_pods |-> 0, running_pods |-> 0, unhealthy_pods |-> <<>>]

\* Monitor.check_csi_health up to its update of the metrics: result.update
\* of the health of the driver's pods
CheckCsiHealth(mon, items, cfg, fail) ==
    IF ~mon.k8s_client THEN EmptyCsiHealth
    ELSE LET health == CheckCsiDriverHealth(items, cfg, fail)
         IN  [EmptyCsiHealth EXCEPT !.healthy = health.healthy,
                                    !.total_pods = health.total_pods,
                                    !.running_pods = health.running_pods]

\* TrueNASMetrics.update_csi_metrics: the samples after the update
UpdateCsiMetrics(samples, health) ==
    SetGauge(SetGauge(samples,
        "csi_driver_pods_total", <<"democratic-csi", "running">>, Float(health.running_pods)),
        "csi_driver_pods_total", <<"democratic-csi", "unhealthy">>,
        Float(health.total_pods - health.running_pods))

\* the three checks of run_checks, in the order of cli.py lines 533-586
Checks == <<"orphans", "storage", "csi_health">>

\* the position after the check at position `at`
AfterCheck(at) ==
    IF at = "orphans" THEN "storage" ELSE IF at = "storage" THEN "csi_health" ELSE "end"

\* Counter.labels(check_type=...).inc() of truenas_check_errors_total
IncCheckErrors(samples, check) ==
    LET old == {sm \in samples : /\ sm.metric = "truenas_check_errors_total"
                                 /\ sm.labels = <<check>>}
        count == IF old = {} THEN 0 ELSE (CHOOSE sm \in old : TRUE).value.num
    IN  SetGauge(samples, "truenas_check_errors_total", <<check>>, Float(count + 1))

\* variant in which the exception of a check ends run_checks
FrameAfter_AbortsPass(check, raised) ==
    LET locals == [frame.locals EXCEPT
                       !.finished = Append(@, check),
                       !.errors = IF raised THEN Append(@, check) ELSE @]
        next == AfterCheck(check)
    IN  [at |-> IF next # "end" /\ ~raised THEN next
                ELSE IF locals.once THEN "returned" ELSE "sleep",
         locals |-> locals]

\* the frame after the try block of one check: the check is finished, with
\* or without exception, and run_checks goes on to the next one; after the
\* last check the loop of lines 596-598 sleeps, and --once returns
FrameAfter(check, raised) ==
    LET locals == [frame.locals EXCEPT
                       !.finished = Append(@, check),
                       !.errors = IF raised THEN Append(@, check) ELSE @]
        next == AfterCheck(check)
    IN  [at |-> IF next # "end" THEN next
                ELSE IF locals.once THEN "returned" ELSE "sleep",
         locals |-> locals]

\* the except clause of a check: the error counter of its type is raised
CheckFailed(check) ==
    /\ ret' = [op |-> "run_checks", args |-> <<frame.locals.pass, check>>,
               out |-> Raised("Exception")]
    /\ gauges' = IncCheckErrors(gauges, check)

\* last_check_timestamp.labels(check_type=...).set_to_current_time()
Stamped(samples, check) ==
    SetGauge(samples, "truenas_last_check_timestamp", <<check>>, Float(now))

\* the monitor command starts, with or without --once (lines 527 and 591-596)
CliMonitorStart ==
    /\ frame = NoFrame
    /\ ret = NoCall
    /\ \E once \in BOOLEAN :
           frame' = [at |-> "orphans",
                     locals |-> [pass |-> 1, finished |-> <<>>, errors |-> <<>>,
                                 once |-> once]]
    /\ UNCHANGED <<pods, pools, gauges, config, monitor, now, failing, pvItems, pvcItems,
                   tzAware, vsItems, extents, shares, zfsSnaps, ret>>

\* the first try block of run_checks (lines 533-547); an exception that
\* reaches it is any Exception raised under check_orphaned_resources
CliCheckOrphans ==
    /\ frame.at = "orphans"
    /\ \E raised \in BOOLEAN :
           /\ frame' = FrameAfter("orphans", raised)
           /\ IF raised THEN CheckFailed("orphans")
              ELSE LET counts == CheckOrphanedResources(monitor, pvItems, pvcItems, vsItems,
                                                        zfsSnaps, config, failing, tzAware, now)
                       mine == UpdateVolumeMetrics(gauges, counts)
                       typed == SetGauge(SetGauge(SetGauge(mine,
                                    "truenas_orphaned_resources_total", <<"pv">>,
                                    Float(counts.orphaned_pvs)),
                                    "truenas_orphaned_resources_total", <<"pvc">>,
                                    Float(counts.orphaned_pvcs)),
                                    "truenas_orphaned_resources_total", <<"snapshot">>,
                                    Float(counts.orphaned_snapshots))
                   IN  /\ ret' = [op |-> "run_checks",
                                  args |-> <<frame.locals.pass, "orphans">>,
                                  out |-> Ok(counts)]
                       /\ gauges' = Stamped(typed, "orphans")
    /\ UNCHANGED <<pods, pools, config, monitor, now, failing, pvItems, pvcItems,
                   tzAware, vsItems, extents, shares, zfsSnaps>>

\* the gauges of lines 552-554 for the pools of the usage
RECURSIVE CliPoolGauges(_, _)
CliPoolGauges(samples, entries) ==
    IF entries = <<>> THEN samples
    ELSE LET pool == Head(entries)
         IN  CliPoolGauges(
                 SetGauge(SetGauge(SetGauge(samples,
                     "truenas_storage_usage_bytes", <<pool.name, "used">>, Float(pool.used)),
                     "truenas_storage_usage_bytes", <<pool.name, "free">>, Float(pool.free)),
                     "truenas_storage_capacity_bytes", <<pool.name>>, Float(pool.total)),
                 Tail(entries))

\* the second try block of run_checks (lines 549-573), with the default
\* thresholds
CliCheckStorage ==
    /\ frame.at = "storage"
    /\ \E raised \in BOOLEAN :
           /\ frame' = FrameAfter("storage", raised)
           /\ IF raised THEN CheckFailed("storage")
              ELSE LET usage == CheckStorageUsage(monitor, pools, failing)
                       mine == UpdateStorageMetrics(gauges, usage)
                   IN  /\ ret' = [op |-> "run_checks",
                                  args |-> <<frame.locals.pass, "storage">>,
                                  out |-> Ok(MapSeq(LAMBDA pl : StorageCheckLine(pl, 80, 90),
                                                    usage.pools))]
                       /\ gauges' = Stamped(CliPoolGauges(mine, usage.pools), "storage")
    /\ UNCHANGED <<pods, pools, config, monitor, now, failing, pvItems, pvcItems,
                   tzAware, vsItems, extents, shares, zfsSnaps>>

\* the third try block of run_checks (lines 575-589)
CliCheckCsiHealth ==
    /\ frame.at = "csi_health"
    /\ \E raised \in BOOLEAN :
           /\ frame' = FrameAfter("csi_health", raised)
           /\ IF raised THEN CheckFailed("csi_health")
              ELSE LET health == CheckCsiHealth(monitor, pods, config, failing)
                   IN  /\ ret' = [op |-> "run_checks",
                                  args |-> <<frame.locals.pass, "csi_health">>,
                                  out |-> Ok(health)]
                       /\ gauges' = Stamped(IF monitor.k8s_client
                                            THEN UpdateCsiMetrics(gauges, health)
                                            ELSE gauges,
                                            "csi_health")
    /\ UNCHANGED <<pods, pools, config, monitor, now, failing, pvItems, pvcItems,
                   tzAware, vsItems, extents, shares, zfsSnaps>>

\* time.sleep(interval) of line 598 returns and the loop calls run_checks
\* again
CliSleep ==
    /\ frame.at = "sleep"
    /\ frame.locals.pass < MaxPasses
    /\ now' = now + IntervalMinutes
    /\ frame' = [at |-> "orphans",
                 locals |-> [frame.locals EXCEPT !.pass = @ + 1, !.finished = <<>>,
                                                 !.errors = <<>>]]
    /\ UNCHANGED <<pods, pools, gauges, config, monitor, failing, pvItems, pvcItems,
                   tzAware, vsItems, extents, shares, zfsSnaps, ret>>

\* Ctrl+C during the sleep: the KeyboardInterrupt ends the loop (lines
\* 599-601)
CliInterrupt ==
    /\ frame.at = "sleep"
    /\ frame' = [frame EXCEPT !.at = "returned"]
    /\ UNCHANGED <<pods, pools, gauges, config, monitor, now, failing, pvItems, pvcItems,
                   tzAware, vsItems, extents, shares, zfsSnaps, ret>>

\* the API lists one more pod of the driver, Running, its container ready
\* or not
ApiDriverPodListed ==
    /\ ret = NoCall
    /\ Len(pods) < MaxPods
    /\ \E pod \in PodObjects(Len(pods) + 1) :
           /\ pod.labels = [app |-> "democratic-csi", k8s_name |-> "democratic-csi"]
           /\ pod.phase = "Running"
           /\ Len(pod.container_statuses) = 1
           /\ pods' = Append(pods, pod)
    /\ UNCHANGED <<frame, pools, gauges, config, monitor, now, failing, pvItems, pvcItems,
                   tzAware, vsItems, extents, shares, zfsSnaps, ret>>

\* the driver provisions one more volume that stays Available
ApiVolumeAvailable ==
    /\ ret = NoCall
    /\ Len(pvItems) < MaxPVs
    /\ pvItems' = Append(pvItems,
                         [ProvisionedVolume(PVName(Len(pvItems) + 1))
                             EXCEPT !.phase = "Available"])
    /\ UNCHANGED <<pods, frame, pools, gauges, config, monitor, now, failing, pvcItems,
                   tzAware, vsItems, extents, shares, zfsSnaps, ret>>

NextMonitorCmd ==
    \/ ApiVolumeAvailable
    \/ BackendCreateSmallPool
    \/ ApiDriverPodListed
    \/ CliMonitorStart
    \/ CliCheckOrphans
    \/ CliCheckStorage
    \/ CliCheckCsiHealth
    \/ CliSleep
    \/ CliInterrupt

SpecMonitorCmd == InitIdle /\ [][NextMonitorCmd]_vars

\* the monitor command is inside its passes
InPasses == frame.at \in {"orphans", "storage", "csi_health", "sleep"}

\* the checks of the current pass that have finished are the first ones of
\* run_checks, in its order
FinishedInOrder(position) ==
    position.locals.finished
        = SubSeq(Checks, 1, Len(position.locals.finished))

\* C22: in the periodic mode of the monitor command the passes are strictly
\* serialized: a pass starts only after the three checks of the pass before
\* (orphaned resources, then storage usage, then CSI health) have all finished
\* and the sleep interval has run, and a check that fails neither skips the
\* checks after it nor prevents the next pass.
C22_PassesSerialized ==
    [][InPasses =>
          /\ FinishedInOrder(frame)
          /\ (frame.at # "sleep") => frame.at = Checks[Len(frame.locals.finished) + 1]
          /\ (frame.at = "sleep") => frame.locals.finished = Checks
          /\ (frame'.at = "orphans" /\ frame' # frame) =>
                 /\ frame.at = "sleep"
                 /\ frame.locals.finished = Checks
                 /\ frame'.locals.pass = frame.locals.pass + 1
                 /\ now' = now + IntervalMinutes
          /\ (frame.at = "sleep" /\ frame.locals.pass < MaxPasses) => ENABLED CliSleep
      ]_vars

\* a second pass has been run to its end after a pass in which checks
\* failed, and a check of the second pass failed while the later ones ran
C22_Witness ==
    /\ frame.at = "sleep"
    /\ frame.locals.pass = 2
    /\ frame.locals.errors = <<"orphans">>
    /\ frame.locals.finished = Checks
    /\ \E sm \in gauges : /\ sm.metric = "truenas_check_errors_total"
                          /\ sm.labels = <<"storage">>

----------------------------------------------------------------------------
(* Operations on the alert metrics *)

\* the alert dicts passed to update_alert_metrics; the last has no level
AlertDicts ==
    {[level |-> "warning", category |-> "cleanup"],
     [level |-> "error", category |-> "health"],
     [category |-> "storage"]}

\* the list passed by the call before the last one, empty before the second
EarlierAlerts == IF ret.op = "update_alert_metrics" THEN ret.args[1] ELSE <<>>

\* TrueNASMetrics.update_alert_metrics(alerts); the arguments kept are the
\* list of this call and the list of the call before
CallUpdateAlertMetrics ==
    \E alerts \in SeqsUpTo(AlertDicts, MaxAlerts) :
        /\ ret' = [op |-> "update_alert_metrics", args |-> <<alerts, EarlierAlerts>>,
                   out |-> Ok(<<>>)]
        /\ gauges' = UpdateAlertMetrics(gauges, alerts)
        /\ UNCHANGED <<pods, frame, pools, config, monitor, now, failing, pvItems, pvcItems,
                       tzAware, vsItems, extents, shares, zfsSnaps>>

NextAlerts ==
    \/ CallUpdateAlertMetrics

SpecAlerts == InitIdle /\ [][NextAlerts]_vars

\* the samples of the active-alert gauge, as the value of each label pair
ActiveAlerts == {sm \in gauges : sm.metric = "active_alerts_total"}

\* the number of alerts of the list with the given level and category
AlertsOfPair(alerts, pair) ==
    Cardinality({i \in 1..Len(alerts) : AlertKey(alerts[i]) = pair})

\* C23: after any sequence of update_alert_metrics calls the active-alert
\* gauge reflects the last call only: every (level, category) pair of the last
\* list has the number of its alerts as value, and a pair that no alert of the
\* last list has exposes no value, whatever the earlier calls set.
C23_GaugeReflectsLastCall ==
    ret.op = "update_alert_metrics" =>
        LET last == ret.args[1]
        IN  /\ \A i \in 1..Len(last) :
                   \E sm \in ActiveAlerts :
                       /\ sm.labels = AlertKey(last[i])
                       /\ sm.value = Float(AlertsOfPair(last, AlertKey(last[i])))
            /\ \A sm \in ActiveAlerts : AlertsOfPair(last, sm.labels) > 0
            /\ \A sm, other \in ActiveAlerts : sm.labels = other.labels => sm = other

\* the call before set two alerts of a pair that the last call, which has
\* another alert, does not pass any more
C23_Witness ==
    /\ ret.op = "update_alert_metrics"
    /\ AlertsOfPair(ret.args[2], <<"warning", "cleanup">>) = 2
    /\ AlertsOfPair(ret.args[1], <<"warning", "cleanup">>) = 0
    /\ AlertsOfPair(ret.args[1], <<"unknown", "storage">>) = 1
    /\ Cardinality(ActiveAlerts) = 1

----------------------------------------------------------------------------
(* Operations on the orphan counts of the two reports *)

NextOrphanCounts ==
    \/ ApiSnapshotKept
    \/ BackendSnapshotKept
    \/ NaiveTimestamps
    \/ CallCheckSnapshotHealth
    \/ CallCheckOrphanedResources

SpecOrphanCounts == InitIdle /\ [][NextOrphanCounts]_vars

\* check_snapshot_health has returned a report that no exception cut short
HealthReported ==
    /\ ret.op = "check_snapshot_health"
    /\ monitor.k8s_client /\ monitor.truenas_client
    /\ \A i \in 1..Len(ret.out.value.alerts) : ret.out.value.alerts[i].category # "system"

\* the control-plane snapshots none of whose candidate ids is the id of a
\* backend snapshot
WithoutBackendCounterpart ==
    {i \in 1..Len(vsItems) :
        CandidateIds(vsItems[i]) \cap {zfsSnaps[j].id : j \in 1..Len(zfsSnaps)} = {}}

\* the backend snapshots flagged by the backend-side detection
FlaggedBackendSnapshots ==
    FindOrphanedTruenasSnapshots(Some(GetVolumeSnapshots(vsItems, failing).value),
                                 DefaultAgeThresholdDays, zfsSnaps, failing, now).value

\* the count check_orphaned_resources computes from the same snapshots
OrphanedSnapshotsOfPass ==
    CheckOrphanedResources(monitor, pvItems, pvcItems, vsItems, zfsSnaps, config,
                           failing, tzAware, now).orphaned_snapshots

\* C24: in the report of check_snapshot_health, with both collaborators
\* available, k8s_without_truenas is the number of control-plane snapshots
\* none of whose candidate ids exists among the backend snapshots,
\* truenas_without_k8s is the number of backend snapshots flagged by the
\* backend-side detection, total_orphaned is their sum, and the total agrees
\* with the orphaned_snapshots count of check_orphaned_resources on the same
\* two snapshot sets.
C24_OrphanCountsAgree ==
    HealthReported =>
        LET found == ret.out.value.orphaned_resources
        IN  /\ found.k8s_without_truenas = Cardinality(WithoutBackendCounterpart)
            /\ found.truenas_without_k8s = Len(FlaggedBackendSnapshots)
            /\ found.total_orphaned = found.k8s_without_truenas + found.truenas_without_k8s
            /\ found.total_orphaned = OrphanedSnapshotsOfPass

\* the parts of C24 that hold: the backend-side count and the sum
C24_BackendSideAndSum ==
    HealthReported =>
        LET found == ret.out.value.orphaned_resources
        IN  /\ found.truenas_without_k8s = Len(FlaggedBackendSnapshots)
            /\ found.total_orphaned = found.k8s_without_truenas + found.truenas_without_k8s

\* what k8s_without_truenas is: the number of snapshots not ready for longer
\* than the threshold, whatever the backend holds
C24_CountsStuckSnapshotsOnly ==
    HealthReported =>
        ret.out.value.orphaned_resources.k8s_without_truenas
            = Cardinality({i \in 1..Len(vsItems) :
                              IsStuckSnapshot(VolumeSnapshotInfo(vsItems[i]), now,
                                              DefaultAgeThresholdMinutes)})

\* the entries of a list that report the named snapshot
EntriesOf(entries, name) == {i \in 1..Len(entries) : entries[i].name = name}

\* the list find_orphaned_snapshots returns for the backend snapshots
OrphanedOfControlPlane ==
    FindOrphanedSnapshots(Some(GetSnapshots(zfsSnaps, failing).value),
                          DefaultAgeThresholdMinutes, vsItems, failing, tzAware, now).value

\* check_orphaned_resources has returned, with both collaborators available
PassReported ==
    /\ ret.op = "check_orphaned_resources"
    /\ monitor.k8s_client /\ monitor.truenas_client

\* C28: find_orphaned_snapshots returns at most one entry per control-plane
\* snapshot and find_orphaned_truenas_snapshots at most one entry per backend
\* snapshot, so the orphaned_snapshots count of check_orphaned_resources
\* never exceeds the number of control-plane snapshots plus the number of
\* backend snapshots.
C28_OneEntryPerSnapshot ==
    PassReported =>
        /\ \A i \in 1..Len(vsItems) :
               Cardinality(EntriesOf(OrphanedOfControlPlane, vsItems[i].name)) <= 1
        /\ \A j \in 1..Len(zfsSnaps) :
               Cardinality({k \in 1..Len(FlaggedBackendSnapshots) :
                               FlaggedBackendSnapshots[k].full_name = zfsSnaps[j].id}) <= 1
        /\ ret.out.value.orphaned_snapshots <= Len(vsItems) + Len(zfsSnaps)

\* the backend half of C28 holds: no backend snapshot is listed twice
C28_BackendSnapshotListedOnce ==
    PassReported =>
        \A j \in 1..Len(zfsSnaps) :
            Cardinality({k \in 1..Len(FlaggedBackendSnapshots) :
                            FlaggedBackendSnapshots[k].full_name = zfsSnaps[j].id}) <= 1

\* a backend snapshot that is unmatched and older than the threshold has been
\* counted by a pass
C28_BackendWitness ==
    /\ PassReported
    /\ \E j \in 1..Len(zfsSnaps) :
           /\ IsOldBackendSnapshot(SnapshotInfo(zfsSnaps[j]), now, DefaultAgeThresholdDays)
           /\ zfsSnaps[j].id \notin UNION {CandidateIds(vsItems[i]) : i \in 1..Len(vsItems)}

----------------------------------------------------------------------------
(* The orphaned backend volumes without a control-plane listing *)

\* check_orphaned_volumes has returned and the backend client was available
CheckedVolumes ==
    /\ ret.op = "check_orphaned_volumes"
    /\ monitor.truenas_client

\* no listing of the PersistentVolumes was obtained: there is no
\* control-plane client, or its listing failed
NoVolumeListing ==
    \/ ~monitor.k8s_client
    \/ "list_persistent_volume" \in failing

\* C29: check_orphaned_volumes reports a backend volume as orphaned only on
\* the basis of a control-plane listing it obtained: when the control-plane
\* client is unavailable or its listing fails, the result contains no
\* orphaned backend volume and carries an error.
C29_NoClassificationWithoutListing ==
    (CheckedVolumes /\ NoVolumeListing) =>
        /\ ret.out.value.orphaned_volumes = <<>>
        /\ ret.out.value.error # None

\* the half of C29 that holds: a listing that fails leaves no orphaned volume
\* and an error in the result
C29_FailedListingCarriesError ==
    (CheckedVolumes /\ monitor.k8s_client /\ "list_persistent_volume" \in failing) =>
        /\ ret.out.value.orphaned_volumes = <<>>
        /\ ret.out.value.error # None

\* without a control-plane client every backend volume is reported
C29_EveryVolumeReportedWithoutClient ==
    (CheckedVolumes /\ ~monitor.k8s_client) =>
        /\ ret.out.value.error = None
        /\ ret.out.value.orphaned_volumes
               = MapSeq(VolumeEntry, FindOrphanedVolumes(<<>>, extents, shares, failing))

----------------------------------------------------------------------------
(* The base URL of the backend client *)

\* the configured URLs scheme://host or scheme://host:port, as the parts
\* urlparse takes them apart into
TruenasUrls ==
    [scheme : {"http", "https"},
     hostname : {"truenas.example.com", "nas.local"},
     port : {None, Some(80), Some(443), Some(8443)}]

\* the truenas section of the configuration: the URL with an API key, with
\* a username and password, or with no credentials
TruenasSections ==
    [url : TruenasUrls,
     api_key : {None, Some("test-api-key")},
     username : {None},
     password : {None}]
    \cup [url : TruenasUrls,
          api_key : {None},
          username : {Some("admin")},
          password : {Some("secret")}]

\* parsed.port or (443 if parsed.scheme == "https" else 80)
PortOf(url) ==
    IF url.port # None THEN url.port[1]
    ELSE IF url.scheme = "https" THEN 443 ELSE 80

\* the dataclass TrueNASConfig with its __post_init__ (lines 41-44); the
\* fields are those the callers pass, the scheme is not among them
TrueNASConfig(host, port, username, password, api_key, verify_ssl) ==
    IF api_key = None /\ ~(username # None /\ password # None)
    THEN Raised("ValueError")
    ELSE Ok([host |-> host, port |-> port, api_key |-> api_key, username |-> username,
             password |-> password, verify_ssl |-> verify_ssl])

\* _create_truenas_config of cli.py and lines 56-68 of Monitor.__init__
CreateTruenasConfig(section) ==
    TrueNASConfig(section.url.hostname, PortOf(section.url), section.username,
                  section.password, section.api_key, TRUE)

\* TrueNASConfig.base_url: f"{protocol}://{host}:{port}/api/v2.0"
BaseUrl(cfg) ==
    [protocol |-> IF cfg.port = 443 THEN "https" ELSE "http",
     host |-> cfg.host, port |-> cfg.port, path |-> "/api/v2.0"]

\* a command of the CLI builds the configuration of the backend client
CliCreateTruenasConfig ==
    /\ ret = NoCall
    /\ \E section \in TruenasSections :
           ret' = [op |-> "_create_truenas_config", args |-> <<section>>,
                   out |-> CreateTruenasConfig(section)]
    /\ UNCHANGED <<pods, frame, pools, gauges, config, monitor, now, failing, pvItems,
                   pvcItems, tzAware, vsItems, extents, shares, zfsSnaps>>

\* Monitor.__init__ builds it; an exception leaves the Monitor without
\* backend client (lines 70-71)
MonitorInit ==
    /\ ret = NoCall
    /\ \E section \in TruenasSections :
           LET built == CreateTruenasConfig(section)
           IN  /\ ret' = [op |-> "Monitor", args |-> <<section>>, out |-> built]
               /\ monitor' = [monitor EXCEPT !.truenas_client = (built.status = "ok")]
    /\ UNCHANGED <<pods, frame, pools, gauges, config, now, failing, pvItems,
                   pvcItems, tzAware, vsItems, extents, shares, zfsSnaps>>

\* TrueNASClient.__init__ reads config.base_url (line 123)
CallBaseUrl ==
    /\ ret.op \in {"_create_truenas_config", "Monitor"}
    /\ ret.out.status = "ok"
    /\ ret' = [op |-> "base_url", args |-> <<ret.args[1], ret.out.value>>,
               out |-> Ok(BaseUrl(ret.out.value))]
    /\ UNCHANGED <<pods, frame, pools, gauges, config, monitor, now, failing, pvItems,
                   pvcItems, tzAware, vsItems, extents, shares, zfsSnaps>>

NextBaseUrl ==
    \/ CliCreateTruenasConfig
    \/ MonitorInit
    \/ CallBaseUrl

SpecBaseUrl == InitIdle /\ [][NextBaseUrl]_vars

\* C30: the backend client contacts the backend with the scheme of the
\* configured URL: for every configured URL, whatever port it names, the
\* base URL starts with https:// when the scheme is https and with http://
\* when the scheme is http.
C30_BaseUrlKeepsScheme ==
    ret.op = "base_url" => ret.out.value.protocol = ret.args[1].url.scheme

\* what holds: a URL that names no port keeps its scheme, and so does one
\* that names the port 443 with https or another port with http
C30_SchemeKeptForDefaultPorts ==
    (/\ ret.op = "base_url"
     /\ \/ ret.args[1].url.port = None
        \/ (ret.args[1].url.scheme = "https") <=> (ret.args[1].url.port = Some(443)))
        => ret.out.value.protocol = ret.args[1].url.scheme

\* the configuration of the unit test: host, port 443 and an API key
C30_TestValidConfig ==
    TrueNASConfig("truenas.example.com", 443, None, None, Some("test-api-key"), TRUE).status
        = "ok"
    /\ BaseUrl(TrueNASConfig("truenas.example.com", 443, None, None,
                             Some("test-api-key"), TRUE).value)
           = [protocol |-> "https", host |-> "truenas.example.com", port |-> 443,
              path |-> "/api/v2.0"]

----------------------------------------------------------------------------
(* Reads of the alert metrics while a pass writes them *)

RECURSIVE KeysInOrder(_, _)
\* the keys of alert_counts in the order of a dict: the order in which the
\* alerts of the list bring them in
KeysInOrder(alerts, seen) ==
    IF alerts = <<>> THEN seen
    ELSE KeysInOrder(Tail(alerts),
                     IF AlertKey(Head(alerts)) \in Range(seen)
                     THEN seen
                     ELSE Append(seen, AlertKey(Head(alerts))))

\* the alerts of the pass whose values the gauge holds or is being given
WrittenAlerts == IF frame = NoFrame THEN <<>> ELSE frame.locals.alerts

\* update_alert_metrics(alerts) is entered by the pass
AlertsEnter ==
    /\ frame.at = "idle"
    /\ \E alerts \in SeqsUpTo(AlertDicts, MaxAlerts) :
           frame' = [at |-> "clear",
                     locals |-> [alerts |-> alerts, earlier |-> WrittenAlerts,
                                 todo |-> KeysInOrder(alerts, <<>>)]]
    /\ UNCHANGED <<pods, pools, gauges, config, monitor, now, failing, pvItems, pvcItems,
                   tzAware, vsItems, extents, shares, zfsSnaps, ret>>

\* line 391: active_alerts_total.clear()
AlertsClear ==
    /\ frame.at = "clear"
    /\ gauges' = ClearAlerts(gauges)
    /\ frame' = [frame EXCEPT !.at = "set"]
    /\ UNCHANGED <<pods, pools, config, monitor, now, failing, pvItems, pvcItems,
                   tzAware, vsItems, extents, shares, zfsSnaps, ret>>

\* one turn of the loop of lines 402-403: labels(level, category).set(count)
AlertsSetCount ==
    /\ frame.at = "set"
    /\ frame.locals.todo # <<>>
    /\ LET key == Head(frame.locals.todo)
       IN  gauges' = SetGauge(gauges, "active_alerts_total", key,
                              Float(AlertCounts(frame.locals.alerts)[key]))
    /\ frame' = [frame EXCEPT !.locals.todo = Tail(@)]
    /\ UNCHANGED <<pods, pools, config, monitor, now, failing, pvItems, pvcItems,
                   tzAware, vsItems, extents, shares, zfsSnaps, ret>>

\* the loop is over and update_alert_metrics returns
AlertsReturn ==
    /\ frame.at = "set"
    /\ frame.locals.todo = <<>>
    /\ frame' = [frame EXCEPT !.at = "idle", !.locals.earlier = frame.locals.alerts]
    /\ ret' = [op |-> "update_alert_metrics",
               args |-> <<frame.locals.alerts, frame.locals.earlier>>, out |-> Ok(<<>>)]
    /\ UNCHANGED <<pods, pools, gauges, config, monitor, now, failing, pvItems, pvcItems,
                   tzAware, vsItems, extents, shares, zfsSnaps>>

\* the thread of the metrics server answers a scrape; the arguments kept are
\* the alerts of the pass before and of the pass that writes or wrote last
Scrape ==
    /\ frame # NoFrame
    /\ ret' = [op |-> "scrape", args |-> <<frame.locals.earlier, frame.locals.alerts>>,
               out |-> Ok({sm \in gauges : sm.metric = "active_alerts_total"})]
    /\ UNCHANGED <<pods, frame, pools, gauges, config, monitor, now, failing, pvItems,
                   pvcItems, tzAware, vsItems, extents, shares, zfsSnaps>>

NextScrape ==
    \/ AlertsEnter
    \/ AlertsClear
    \/ AlertsSetCount
    \/ AlertsReturn
    \/ Scrape

SpecScrape == InitIdle /\ [][NextScrape]_vars

\* the complete set of values of the active-alert gauge for a list of alerts
CompleteValues(alerts) == UpdateAlertMetrics({}, alerts)

\* C26: a reader running concurrently with a pass never observes a torn
\* alert state: every read of the active-alert gauge returns either the
\* complete set of values of the pass before or the complete set of the pass
\* that is writing, never a state in between.
C26_NoTornRead ==
    ret.op = "scrape" =>
        \/ ret.out.value = CompleteValues(ret.args[1])
        \/ ret.out.value = CompleteValues(ret.args[2])

\* what holds: the steps taken one after the other give what the whole call
\* gives, so a read made while no update is running is complete
C26_QuiescentStateComplete ==
    frame.at = "idle" /\ frame # NoFrame =>
        {sm \in gauges : sm.metric = "active_alerts_total"}
            = CompleteValues(frame.locals.alerts)

\* what holds: every value a reader sees is a value of the pass that writes
C26_ReadValuesAreOfWritingPass ==
    (ret.op = "scrape" /\ frame.at = "set") =>
        \A sm \in {x \in gauges : x.metric = "active_alerts_total"} :
            sm \in CompleteValues(frame.locals.alerts)

----------------------------------------------------------------------------
(* A pass of check_orphaned_resources, call by call *)

\* the VolumeSnapshot of claim pvc-active with the given name, ready and a
\* day old
PairedVolumeSnapshot(name) ==
    [name |-> name, namespace |-> "default", source_pvc |-> Some("pvc-active"),
     snapshot_class |-> Some("democratic-csi"), ready_to_use |-> TRUE,
     creation_timestamp |-> Some(now - MinutesPerDay)]

\* its backend snapshot tank/k8s/volumes/pvc-active@name
PairedBackendSnapshot(name) ==
    LET dataset == <<"tank", "k8s", "volumes", "pvc-active">>
    IN  [snapshot_name |-> name, dataset |-> dataset, id |-> FullName(dataset, name),
         creation |-> now - MinutesPerDay, used |-> 500, referenced |-> 1000]

\* a snapshot is taken: the VolumeSnapshot and its backend snapshot appear
\* together, whatever the pass is doing
SnapshotPairCreated ==
    /\ Len(vsItems) < MaxVolumeSnapshots
    /\ Len(zfsSnaps) < MaxBackendSnapshots
    /\ \E i \in 1..MaxVolumeSnapshots :
           /\ \A k \in 1..Len(vsItems) : vsItems[k].name # SnapshotName(i)
           /\ vsItems' = Append(vsItems, PairedVolumeSnapshot(SnapshotName(i)))
           /\ zfsSnaps' = Append(zfsSnaps, PairedBackendSnapshot(SnapshotName(i)))
    /\ UNCHANGED <<pods, frame, pools, gauges, config, monitor, now, failing, pvItems,
                   pvcItems, tzAware, extents, shares, ret>>

\* a snapshot is deleted: the VolumeSnapshot and its backend snapshot go
\* together
SnapshotPairDeleted ==
    /\ \E k \in 1..Len(vsItems) :
           /\ vsItems' = SelectSeq(vsItems, LAMBDA sn : sn.name # vsItems[k].name)
           /\ zfsSnaps' = SelectSeq(zfsSnaps,
                                    LAMBDA sn : sn.snapshot_name # vsItems[k].name)
    /\ UNCHANGED <<pods, frame, pools, gauges, config, monitor, now, failing, pvItems,
                   pvcItems, tzAware, extents, shares, ret>>

\* the locals of the pass before the snapshots are looked at; relisted_* are
\* the listings the two detections fetch themselves
PassLocals(result) ==
    [result |-> result, k8s_snapshots |-> <<>>, truenas_snapshots |-> <<>>,
     relisted_k8s |-> <<>>, relisted_truenas |-> <<>>,
     orphaned_k8s_snapshots |-> <<>>, orphaned_truenas_snapshots |-> <<>>]

\* the pass returns its result (line 126) after the update of the metrics
\* (line 124); the locals are kept as arguments of the outcome
PassReturns(locals) ==
    /\ ret' = [op |-> "check_orphaned_resources", args |-> <<locals>>,
               out |-> Ok(locals.result)]
    /\ gauges' = UpdateVolumeMetrics(gauges, locals.result)
    /\ frame' = NoFrame

\* lines 81-103: the volumes and claims are counted; the pass goes on to the
\* snapshots when both clients are there and nothing was raised
PassCountVolumes ==
    /\ frame = NoFrame
    /\ LET result == CheckOrphanedResources([monitor EXCEPT !.truenas_client = FALSE],
                                            pvItems, pvcItems, <<>>, <<>>, config,
                                            failing, tzAware, now)
           proceeds == /\ monitor.k8s_client /\ monitor.truenas_client
                       /\ FindOrphanedPvs({}, pvItems, config, failing, now).status = "ok"
                       /\ FindOrphanedPvcs(DefaultPendingThresholdMinutes, pvcItems,
                                           config, failing, tzAware, now).status = "ok"
       IN  IF proceeds
           THEN /\ frame' = [at |-> "get_volume_snapshots", locals |-> PassLocals(result)]
                /\ UNCHANGED <<gauges, ret>>
           ELSE PassReturns(PassLocals(result))
    /\ UNCHANGED <<pods, pools, config, monitor, now, failing, pvItems, pvcItems,
                   tzAware, vsItems, extents, shares, zfsSnaps>>

\* line 107: k8s_snapshots = self.k8s_client.get_volume_snapshots()
PassGetVolumeSnapshots ==
    /\ frame.at = "get_volume_snapshots"
    /\ LET listed == GetVolumeSnapshots(vsItems, failing)
       IN  IF listed.status = "raised"
           THEN PassReturns(frame.locals)
           ELSE /\ frame' = [at |-> "get_snapshots",
                             locals |-> [frame.locals EXCEPT !.k8s_snapshots = listed.value]]
                /\ UNCHANGED <<gauges, ret>>
    /\ UNCHANGED <<pods, pools, config, monitor, now, failing, pvItems, pvcItems,
                   tzAware, vsItems, extents, shares, zfsSnaps>>

\* line 108: truenas_snapshots = self.truenas_client.get_snapshots()
PassGetSnapshots ==
    /\ frame.at = "get_snapshots"
    /\ LET listed == GetSnapshots(zfsSnaps, failing)
       IN  IF listed.status = "raised"
           THEN PassReturns(frame.locals)
           ELSE /\ frame' = [at |-> "find_orphaned_snapshots",
                             locals |-> [frame.locals EXCEPT
                                            !.truenas_snapshots = listed.value]]
                /\ UNCHANGED <<gauges, ret>>
    /\ UNCHANGED <<pods, pools, config, monitor, now, failing, pvItems, pvcItems,
                   tzAware, vsItems, extents, shares, zfsSnaps>>

\* line 111: find_orphaned_snapshots(truenas_snapshots), which lists the
\* VolumeSnapshots itself (k8s_client.py:601)
PassFindOrphanedSnapshots ==
    /\ frame.at = "find_orphaned_snapshots"
    /\ LET found == FindOrphanedSnapshots(Some(frame.locals.truenas_snapshots),
                                          DefaultAgeThresholdMinutes, vsItems, failing,
                                          tzAware, now)
           relisted == GetVolumeSnapshots(vsItems, failing)
       IN  IF found.status = "raised"
           THEN PassReturns(frame.locals)
           ELSE /\ frame' = [at |-> "find_orphaned_truenas_snapshots",
                             locals |-> [frame.locals EXCEPT
                                            !.orphaned_k8s_snapshots = found.value,
                                            !.relisted_k8s =
                                                IF relisted.status = "ok"
                                                THEN relisted.value ELSE <<>>]]
                /\ UNCHANGED <<gauges, ret>>
    /\ UNCHANGED <<pods, pools, config, monitor, now, failing, pvItems, pvcItems,
                   tzAware, vsItems, extents, shares, zfsSnaps>>

\* lines 112-114: find_orphaned_truenas_snapshots(k8s_snapshots), which
\* lists the backend snapshots itself (truenas_client.py:546), and the count
PassFindOrphanedTruenasSnapshots ==
    /\ frame.at = "find_orphaned_truenas_snapshots"
    /\ LET found == FindOrphanedTruenasSnapshots(Some(frame.locals.k8s_snapshots),
                                                 DefaultAgeThresholdDays, zfsSnaps,
                                                 failing, now)
           relisted == GetSnapshots(zfsSnaps, failing)
       IN  PassReturns([frame.locals EXCEPT
                           !.orphaned_truenas_snapshots = found.value,
                           !.relisted_truenas =
                               IF relisted.status = "ok" THEN relisted.value ELSE <<>>,
                           !.result.orphaned_snapshots =
                               Len(frame.locals.orphaned_k8s_snapshots) + Len(found.value)])
    /\ UNCHANGED <<pods, pools, config, monitor, now, failing, pvItems, pvcItems,
                   tzAware, vsItems, extents, shares, zfsSnaps>>

NextInterleaved ==
    \/ NaiveTimestamps
    \/ SnapshotPairCreated
    \/ SnapshotPairDeleted
    \/ PassCountVolumes
    \/ PassGetVolumeSnapshots
    \/ PassGetSnapshots
    \/ PassFindOrphanedSnapshots
    \/ PassFindOrphanedTruenasSnapshots

SpecInterleaved == InitIdle /\ [][NextInterleaved]_vars

\* a pass has gone through both detections and returned
PassCompleted ==
    /\ ret.op = "check_orphaned_resources"
    /\ ret.args[1].orphaned_k8s_snapshots
           \o ret.args[1].relisted_k8s \o ret.args[1].relisted_truenas # <<>>

\* the ids of the backend snapshots in the listings the pass obtained
ObtainedBackendIds ==
    BackendIds(ret.args[1].truenas_snapshots) \cup BackendIds(ret.args[1].relisted_truenas)

\* the candidate ids of the VolumeSnapshots in the listings the pass obtained
ObtainedCandidateIds ==
    K8sSnapshotIds(ret.args[1].k8s_snapshots) \cup K8sSnapshotIds(ret.args[1].relisted_k8s)

\* C25: within one pass of check_orphaned_resources, when snapshots and their
\* counterparts are created or deleted on the two systems between the
\* collaborator calls of the pass, the pass does not report as orphaned a
\* snapshot whose counterpart is present in a listing the pass obtained.
C25_NoOrphanWithListedCounterpart ==
    PassCompleted =>
        /\ \A k \in 1..Len(ret.args[1].orphaned_k8s_snapshots) :
               LET entry == ret.args[1].orphaned_k8s_snapshots[k]
               IN  Range(PotentialNames(entry.details.source_pvc, entry.name))
                       \cap ObtainedBackendIds = {}
        /\ \A k \in 1..Len(ret.args[1].orphaned_truenas_snapshots) :
               ret.args[1].orphaned_truenas_snapshots[k].full_name \notin ObtainedCandidateIds

\* the other half of C25: each collaborator's snapshot list is fetched once,
\* so the listing a detection works on is the one the pass fetched
C25_EachListFetchedOnce ==
    PassCompleted =>
        /\ ret.args[1].relisted_k8s = ret.args[1].k8s_snapshots
        /\ ret.args[1].relisted_truenas = ret.args[1].truenas_snapshots

\* what holds: a pass whose detections list what the pass had fetched, every
\* fetched snapshot having its counterpart in the fetched list of the other
\* system, reports no snapshot
C25_ConsistentListingsReportNothing ==
    (/\ PassCompleted
     /\ ret.args[1].relisted_k8s = ret.args[1].k8s_snapshots
     /\ ret.args[1].relisted_truenas = ret.args[1].truenas_snapshots
     /\ BackendIds(ret.args[1].truenas_snapshots)
            \subseteq K8sSnapshotIds(ret.args[1].k8s_snapshots)
     /\ \A k \in 1..Len(ret.args[1].k8s_snapshots) :
            ~HasNoCounterpart(ret.args[1].k8s_snapshots[k], ret.args[1].truenas_snapshots))
        => ret.out.value.orphaned_snapshots = 0

\* a pass of that kind over two snapshots and their counterparts
C25_ConsistentPassReached ==
    /\ PassCompleted
    /\ Len(ret.args[1].k8s_snapshots) = 2
    /\ ret.args[1].relisted_k8s = ret.args[1].k8s_snapshots
    /\ ret.args[1].relisted_truenas = ret.args[1].truenas_snapshots
    /\ ret.out.value.orphaned_snapshots = 0

====
